---- MODULE Spec2Model ----
(***************************************************************************)
(* Friend-relationship and picnic-invite workflow of Picnik, as a state    *)
(* machine over the remote document store.  Every await of the source is   *)
(* one atomic step of the calling process; the store is shared by all      *)
(* processes.  src/src/firebase.ts holds two implementations of the friend *)
(* workflow (lines 140-330 and lines 680-975); both are modelled, with the *)
(* suffixes _v1 and _v2.                                                   *)
(***************************************************************************)
EXTENDS Integers, Sequences, FiniteSets, TLC

VARIABLES users, friendRequests, proc, result, pre, repeat, calls,
          picnics, notifications, fn, fnResult, fnPre, declined,
          friendsTab, notificationCtx, authCtx, restaurantsTab, messaging

\* The picnic side of the store and of the clients.  declined is a history
\* variable: the (picnic, user) pairs whose last invite was answered with a
\* successful accept=false response.
picnicVars == <<picnics, notifications, fn, fnResult, fnPre, declined>>

\* The friend side of the store and of the clients.
friendVars == <<friendRequests, proc, result, pre, repeat, calls>>

\* The in-memory state of the views.
viewVars == <<friendsTab, notificationCtx, authCtx, restaurantsTab, messaging>>
exceptFriendsTab == <<notificationCtx, authCtx, restaurantsTab, messaging>>
exceptNotificationCtx == <<friendsTab, authCtx, restaurantsTab, messaging>>
exceptAuthCtx == <<friendsTab, notificationCtx, restaurantsTab, messaging>>
exceptRestaurantsTab == <<friendsTab, notificationCtx, authCtx, messaging>>
exceptMessaging == <<friendsTab, notificationCtx, authCtx, restaurantsTab>>

vars == <<users, friendRequests, proc, result, pre, repeat, calls, picnicVars,
          viewVars>>

\* Bound on the number of friendRequests documents the store may hold.
MaxRequests == 2
\* Bounds on the number of workflow calls made in one run: by the first client,
\* and by the second client, whose calls interleave with the first's.
MaxCalls == 3
MaxRaceCalls == 1
\* Bounds on the notification documents the store may hold and on the picnic
\* calls made in one run.
MaxNotifications == 3
MaxPicnicCalls == 3
\* Bound on the snapshots delivered to one subscription.
MaxSnapshots == 2
\* Bound on the markAsRead calls of one run.
MaxMarkCalls == 3
\* Bound on the auth-state callbacks of one run.
MaxAuthEvents == 3
\* Bound on the toggleSaveRestaurant calls of one run.
MaxToggles == 3

UserIds == {"u1", "u2", "u3"}
Procs == {"p1", "p2"}
SeqProcs == {"p1"}
\* The client of a development build, which runs generateMockData at start-up.
DevProcs == {"p1"}
NoUser == "none"
\* mockUsers of generateMockData (lines 594-610), by document id
MockUsers == <<"u1", "u2">>

UserName(u) == CASE u = "u1" -> "Ann" [] u = "u2" -> "Bob" [] OTHER -> "Cyd"
UserEmail(u) == CASE u = "u1" -> "u1@x.com" [] u = "u2" -> "u2@x.com" [] OTHER -> "u3@x.com"

\* Free-text recipient emails a caller may type.
EmailInputs == {"u1@x.com", "u2@x.com", "u3@x.com", " U2@X.com "}

\* The users and emails of the interleaved runs.
RaceUsers == {"u1", "u2"}
RaceEmails == {"u1@x.com", "u2@x.com"}

\* toUserEmail.trim().toLowerCase()
NormalizeEmail(e) == IF e = " U2@X.com " THEN "u2@x.com" ELSE e

\* JavaScript's  s || d  on strings
OrDefault(s, d) == IF s = "" THEN d ELSE s

\* ---------------------------------------------------------------- documents

NoProfile == [st |-> "absent", name |-> "", email |-> ""]
NullProfile == [st |-> "null", name |-> "", email |-> ""]
MkProfile(n, e) == [st |-> "set", name |-> n, email |-> e]

NoUserDoc ==
  [exists |-> FALSE, name |-> "", email |-> "", friends |-> <<>>,
   friendProfiles |-> [f \in UserIds |-> NoProfile],
   sentRequests |-> {}, receivedRequests |-> {}]

\* userToSave of createUser (lines 513-519)
NewUserDoc(u) ==
  [NoUserDoc EXCEPT !.exists = TRUE, !.name = UserName(u), !.email = UserEmail(u)]

\* What a getDoc of a user document yields for the display fields.
ReadUser(u) ==
  IF users[u].exists THEN MkProfile(users[u].name, users[u].email) ELSE NoProfile

Includes(arr, x) == \E i \in DOMAIN arr : arr[i] = x

Range(arr) == {arr[i] : i \in DOMAIN arr}

Count(arr, x) == Cardinality({i \in DOMAIN arr : arr[i] = x})

ArrayUnionBuggy(arr, x) == Append(arr, x)

\* arrayUnion: adds the element only when it is not yet in the array
ArrayUnion(arr, x) == IF Includes(arr, x) THEN arr ELSE Append(arr, x)

\* arr.splice(arr.indexOf(x), 1): drops the last element when x is not there
ArraySplice(arr, x) ==
  IF Includes(arr, x) THEN SelectSeq(arr, LAMBDA y : y # x)
  ELSE IF arr = <<>> THEN arr ELSE SubSeq(arr, 1, Len(arr) - 1)

\* arrayRemove: removes every instance of the element
ArrayRemove(arr, x) == SelectSeq(arr, LAMBDA y : y # x)

RequestIds == DOMAIN friendRequests

PendingQueryAcceptedOnly(a, b) ==
  {r \in RequestIds : /\ friendRequests[r].fromUserId = a
                      /\ friendRequests[r].toUserId = b
                      /\ friendRequests[r].status = "accepted"}

\* query(friendRequests, fromUserId == a, toUserId == b, status == 'pending')
PendingQuery(a, b) ==
  {r \in RequestIds : /\ friendRequests[r].fromUserId = a
                      /\ friendRequests[r].toUserId = b
                      /\ friendRequests[r].status = "pending"}

\* query(users, email == e)
UsersByEmail(e) == {u \in UserIds : users[u].exists /\ users[u].email = e}

\* ---------------------------------------------------------------- processes

IdleProc ==
  [op |-> "idle", pc |-> "idle", a |-> NoUser, b |-> NoUser, email |-> "",
   rid |-> 0, resp |-> "", sentEmpty |-> TRUE,
   from |-> NoUser, to |-> NoUser, snap |-> NoProfile, fd |-> NoProfile, td |-> NoProfile,
   gotFrom |-> FALSE, gotTo |-> FALSE, list |-> {}, todo |-> {}, lost |-> {}]

NoResult == [success |-> "none", message |-> "", net |-> FALSE]
NoPre == [users |-> [u \in UserIds |-> NoUserDoc], friendRequests |-> <<>>]

CallBudget(p) == IF p \in SeqProcs THEN MaxCalls ELSE MaxRaceCalls

Ready(p) == proc[p].pc \in {"idle", "done"}

\* A call starts: the arguments are bound, and the history variables record the
\* store as the call found it (pre) and whether the call repeats, with the same
\* arguments, the call this client made just before and saw succeed (repeat).
StartCall(p, hist, op, pc, a, b, email, rid, resp) ==
  /\ Ready(p)
  /\ calls[p] < CallBudget(p)
  /\ calls' = [calls EXCEPT ![p] = @ + 1]
  /\ proc' = [proc EXCEPT ![p] = [IdleProc EXCEPT !.op = op, !.pc = pc, !.a = a, !.b = b,
                                  !.email = email, !.rid = rid, !.resp = resp]]
  /\ result' = [result EXCEPT ![p] = NoResult]
  /\ pre' = [pre EXCEPT ![p] = IF hist THEN [users |-> users,
                                               friendRequests |-> friendRequests]
                                      ELSE NoPre]
  /\ repeat' = [repeat EXCEPT ![p] =
                  /\ hist
                  /\ proc[p].op = op /\ proc[p].a = a /\ proc[p].email = email
                  /\ (b # NoUser => proc[p].b = b)
                  /\ (rid # 0 => proc[p].rid = rid) /\ (resp # "" => proc[p].resp = resp)
                  /\ result[p].success = "true"]
  /\ UNCHANGED <<users, friendRequests, picnicVars, viewVars>>

Call(p, op, pc, a, b, email, rid, resp) ==
  StartCall(p, TRUE, op, pc, a, b, email, rid, resp)

\* A call of the interleaved runs, which keep no history.
RaceCall(p, op, pc, a, b, email, rid, resp) ==
  StartCall(p, FALSE, op, pc, a, b, email, rid, resp)

\* The call returns (success "true"/"false") or throws (success "throw").
Return(p, success, message) ==
  /\ proc' = [proc EXCEPT ![p] = [IdleProc EXCEPT !.op = proc[p].op, !.pc = "done",
                                  !.a = proc[p].a, !.b = proc[p].b,
                                  !.email = proc[p].email, !.rid = proc[p].rid,
                                  !.resp = proc[p].resp]]
  /\ result' = [result EXCEPT ![p] = [success |-> success, message |-> message,
                                       net |-> FALSE]]
  /\ UNCHANGED <<pre, repeat, calls, picnicVars, viewVars>>

\* The same after a rejected remote call; net records the rejection.
ReturnNet(p, success, message) ==
  /\ proc' = [proc EXCEPT ![p] = [IdleProc EXCEPT !.op = proc[p].op, !.pc = "done",
                                  !.a = proc[p].a, !.b = proc[p].b,
                                  !.email = proc[p].email, !.rid = proc[p].rid,
                                  !.resp = proc[p].resp]]
  /\ result' = [result EXCEPT ![p] = [success |-> success, message |-> message,
                                       net |-> TRUE]]
  /\ UNCHANGED <<pre, repeat, calls, picnicVars, viewVars>>

ReturnB(p, b, success, message) ==
  /\ proc' = [proc EXCEPT ![p] = [IdleProc EXCEPT !.op = proc[p].op, !.pc = "done",
                                  !.a = proc[p].a, !.b = b,
                                  !.email = proc[p].email, !.rid = proc[p].rid,
                                  !.resp = proc[p].resp]]
  /\ result' = [result EXCEPT ![p] = [success |-> success, message |-> message,
                                       net |-> FALSE]]
  /\ UNCHANGED <<pre, repeat, calls, picnicVars, viewVars>>

Goto(p, pc) ==
  /\ proc' = [proc EXCEPT ![p].pc = pc]
  /\ UNCHANGED <<result, pre, repeat, calls, picnicVars, viewVars>>

\* ----------------------------------------------------------------- createUser

\* setDoc(userRef, userToSave, {merge: true}): the fields of userToSave are
\* written, the other fields of an existing document stay.
SetUserMerge(us, u) ==
  [us EXCEPT ![u] = [@ EXCEPT !.exists = TRUE, !.name = UserName(u),
                              !.email = UserEmail(u), !.friends = <<>>]]

\* createUser(userId, userData): setDoc(..., {merge: true}) at sign-up, when the
\* identity provider has just issued the uid.
createUser(u) ==
  /\ ~users[u].exists
  /\ users' = SetUserMerge(users, u)
  /\ UNCHANGED <<friendRequests, proc, result, pre, repeat, calls, picnicVars, viewVars>>


\* ------------------------------------------ generateMockData, lines 583-624

generateMockData(p) ==
  /\ p \in DevProcs
  /\ proc[p].pc = "idle"
  /\ \A u \in UserIds : ~users[u].exists
  /\ proc' = [proc EXCEPT ![p] = [IdleProc EXCEPT !.op = "generateMockData",
                                                  !.pc = "gm_getUsers"]]
  /\ result' = [result EXCEPT ![p] = NoResult]
  /\ UNCHANGED <<users, friendRequests, pre, repeat, calls, picnicVars, viewVars>>

\* const usersSnapshot = await getDocs(usersCollection)
gm_getUsers(p) ==
  /\ proc[p].pc = "gm_getUsers"
  /\ UNCHANGED <<users, friendRequests>>
  /\ IF \E u \in UserIds : users[u].exists
       THEN Return(p, "true", "")
       ELSE Goto(p, "gm_create")

\* One createUser of Promise.all(mockUsers.map(user => createUser(...)))
gm_createUser(p, i) ==
  /\ proc[p].pc = "gm_create"
  /\ IF i = 1 THEN ~proc[p].gotFrom ELSE ~proc[p].gotTo
  /\ users' = SetUserMerge(users, MockUsers[i])
  /\ proc' = [proc EXCEPT ![p].gotFrom = (i = 1) \/ @, ![p].gotTo = (i = 2) \/ @,
                          ![p].pc = IF (i = 1 /\ proc[p].gotTo) \/ (i = 2 /\ proc[p].gotFrom)
                                      THEN "gm_update" ELSE "gm_create"]
  /\ UNCHANGED <<friendRequests, result, pre, repeat, calls, picnicVars, viewVars>>

\* One updateDoc(doc(users, user.id), {friends}) of the second Promise.all; the
\* flags of the first are reused inverted.
gm_updateFriends(p, i) ==
  /\ proc[p].pc = "gm_update"
  /\ IF i = 1 THEN proc[p].gotFrom ELSE proc[p].gotTo
  /\ users' = [users EXCEPT ![MockUsers[i]].friends = <<MockUsers[3 - i]>>]
  /\ friendRequests' = friendRequests
  /\ IF (i = 1 /\ ~proc[p].gotTo) \/ (i = 2 /\ ~proc[p].gotFrom)
       THEN Return(p, "true", "")
       ELSE /\ proc' = [proc EXCEPT ![p].gotFrom = IF i = 1 THEN FALSE ELSE @,
                                    ![p].gotTo = IF i = 2 THEN FALSE ELSE @]
            /\ UNCHANGED <<result, pre, repeat, calls, picnicVars, viewVars>>

\* The model's cap on friendRequests documents: a send starts only while every
\* send in flight can still create its document.
SendOps == {"sendFriendRequest_v1", "sendFriendRequest_v2"}
SendsInFlight == Cardinality({q \in Procs : proc[q].op \in SendOps /\ proc[q].pc # "done"})
RoomForRequest == Len(friendRequests) + SendsInFlight < MaxRequests

\* ------------------------------------------- sendFriendRequest, lines 140-264

sendFriendRequest_v1(p) ==
  /\ RoomForRequest
  /\ \E a \in UserIds, e \in EmailInputs :
       Call(p, "sendFriendRequest_v1", "s1_getSender", a, NoUser, e, 0, "")

race_sendFriendRequest_v1(p) ==
  /\ RoomForRequest
  /\ \E a \in RaceUsers, e \in RaceEmails :
       RaceCall(p, "sendFriendRequest_v1", "s1_getSender", a, NoUser, e, 0, "")

\* const fromUserDoc = await getDoc(doc(usersCollection, fromUserId))
s1_getSender(p) ==
  /\ proc[p].pc = "s1_getSender"
  /\ UNCHANGED <<users, friendRequests>>
  /\ IF ~users[proc[p].a].exists
       THEN Return(p, "throw", "Your user account was not found")
       ELSE /\ proc' = [proc EXCEPT ![p].pc = "s1_findUser",
                                    ![p].fd = ReadUser(proc[p].a)]
            /\ UNCHANGED <<result, pre, repeat, calls, picnicVars, viewVars>>

\* const usersSnapshot = await getDocs(query(users, email == normalizedEmail))
s1_findUser(p) ==
  /\ proc[p].pc = "s1_findUser"
  /\ UNCHANGED <<users, friendRequests>>
  /\ LET found == UsersByEmail(NormalizeEmail(proc[p].email)) IN
       IF found = {}
         THEN Return(p, "throw", "No user found with that email")
         ELSE \E t \in found :
                IF t = proc[p].a
                  THEN ReturnB(p, t, "throw", "You cannot send a friend request to yourself")
                  ELSE /\ proc' = [proc EXCEPT ![p].pc = "s1_sentQ", ![p].b = t,
                                               ![p].td = ReadUser(t)]
                       /\ UNCHANGED <<result, pre, repeat, calls, picnicVars, viewVars>>

\* const sentRequests = await getDocs(query(... from, to, pending))
s1_sentQ(p) ==
  /\ proc[p].pc = "s1_sentQ"
  /\ UNCHANGED <<users, friendRequests, result, pre, repeat, calls, picnicVars, viewVars>>
  /\ proc' = [proc EXCEPT ![p].pc = "s1_recvQ",
                          ![p].sentEmpty = (PendingQuery(proc[p].a, proc[p].b) = {})]

\* const receivedRequests = await getDocs(query(... to, from, pending)), then
\* the two duplicate checks
s1_recvQ(p) ==
  /\ proc[p].pc = "s1_recvQ"
  /\ UNCHANGED <<users, friendRequests>>
  /\ IF ~proc[p].sentEmpty
       THEN Return(p, "throw", "Friend request already sent to this user")
       ELSE IF PendingQuery(proc[p].b, proc[p].a) # {}
         THEN Return(p, "throw", "This user has already sent you a friend request")
         ELSE Goto(p, "s1_addDoc")

NewRequest(a, b, fromUser) ==
  [fromUserId |-> a, toUserId |-> b, status |-> "pending", fromUser |-> fromUser]

\* const requestRef = await addDoc(friendRequestsCollection, requestData)
s1_addDoc(p) ==
  /\ proc[p].pc = "s1_addDoc"
  /\ friendRequests' = Append(friendRequests,
        NewRequest(proc[p].a, proc[p].b,
                   MkProfile(proc[p].fd.name, proc[p].fd.email)))
  /\ proc' = [proc EXCEPT ![p].pc = "s1_updSender", ![p].rid = Len(friendRequests) + 1]
  /\ UNCHANGED <<users, result, pre, repeat, calls, picnicVars, viewVars>>

\* await updateDoc(doc(users, fromUserId), {sentRequests: arrayUnion(id)})
s1_updSender(p) ==
  /\ proc[p].pc = "s1_updSender"
  /\ UNCHANGED friendRequests
  /\ IF users[proc[p].a].exists
       THEN /\ users' = [users EXCEPT ![proc[p].a].sentRequests = @ \cup {proc[p].rid}]
            /\ Goto(p, "s1_updRecipient")
       ELSE /\ UNCHANGED users
            /\ Return(p, "throw", "No document to update")

\* await updateDoc(doc(users, toUserId), {receivedRequests: arrayUnion(id)})
s1_updRecipient(p) ==
  /\ proc[p].pc = "s1_updRecipient"
  /\ UNCHANGED friendRequests
  /\ IF users[proc[p].b].exists
       THEN /\ users' = [users EXCEPT ![proc[p].b].receivedRequests = @ \cup {proc[p].rid}]
            /\ Return(p, "true", "Friend request sent successfully")
       ELSE /\ UNCHANGED users
            /\ Return(p, "throw", "No document to update")


\* ------------------------------------------- sendFriendRequest, lines 680-762

sendFriendRequest_v2(p) ==
  /\ RoomForRequest
  /\ \E a \in UserIds, e \in EmailInputs :
       Call(p, "sendFriendRequest_v2", "s2_findUser", a, NoUser, e, 0, "")

race_sendFriendRequest_v2(p) ==
  /\ RoomForRequest
  /\ \E a \in RaceUsers, e \in RaceEmails :
       RaceCall(p, "sendFriendRequest_v2", "s2_findUser", a, NoUser, e, 0, "")

\* const querySnapshot = await getDocs(query(users, email == toUserEmail))
s2_findUser(p) ==
  /\ proc[p].pc = "s2_findUser"
  /\ UNCHANGED <<users, friendRequests>>
  /\ LET found == UsersByEmail(proc[p].email) IN
       IF found = {}
         THEN Return(p, "false", "No user found with that email address.")
         ELSE \E t \in found :
                IF t = proc[p].a
                  THEN ReturnB(p, t, "false", "You cannot send a friend request to yourself.")
                  ELSE /\ proc' = [proc EXCEPT ![p].pc = "s2_getSender", ![p].b = t]
                       /\ UNCHANGED <<result, pre, repeat, calls, picnicVars, viewVars>>

\* const fromUserDoc = await getDoc(fromUserRef), then the already-friends check
s2_getSender(p) ==
  /\ proc[p].pc = "s2_getSender"
  /\ UNCHANGED <<users, friendRequests>>
  /\ IF users[proc[p].a].exists /\ Includes(users[proc[p].a].friends, proc[p].b)
       THEN Return(p, "false", "You are already friends with this user.")
       ELSE Goto(p, "s2_existingQ")

\* const existingRequestSnapshot = await getDocs(existingRequestQuery)
s2_existingQ(p) ==
  /\ proc[p].pc = "s2_existingQ"
  /\ UNCHANGED <<users, friendRequests>>
  /\ IF PendingQuery(proc[p].a, proc[p].b) # {}
       THEN Return(p, "false", "Friend request already sent.")
       ELSE Goto(p, "s2_reverseQ")

\* const reverseRequestSnapshot = await getDocs(reverseRequestQuery); a reverse
\* request is answered by respondToFriendRequest(reverseRequest.id, 'accepted')
s2_reverseQ(p) ==
  /\ proc[p].pc = "s2_reverseQ"
  /\ UNCHANGED <<users, friendRequests, result, pre, repeat, calls, picnicVars, viewVars>>
  /\ LET reverse == PendingQuery(proc[p].b, proc[p].a) IN
       IF reverse # {}
         THEN \E r \in reverse :
                proc' = [proc EXCEPT ![p].pc = "r2_getReq", ![p].rid = r,
                                     ![p].resp = "accepted"]
         ELSE proc' = [proc EXCEPT ![p].pc = "s2_setDoc"]

\* await setDoc(requestRef, newRequest)
s2_setDoc(p) ==
  /\ proc[p].pc = "s2_setDoc"
  /\ friendRequests' = Append(friendRequests, NewRequest(proc[p].a, proc[p].b, NoProfile))
  /\ UNCHANGED users
  /\ Return(p, "true", "Friend request sent successfully!")

\* -------------------------------------- respondToFriendRequest, lines 266-330

IsAcceptedAlways(status) == TRUE

\* if (status === 'accepted'): only an accepted response goes on to the friends
\* lists
IsAccepted(status) == status = "accepted"

RespondInputs == 1..MaxRequests

respondToFriendRequest_v1(p) ==
  \E r \in RespondInputs, resp \in {"accepted", "rejected"} :
    Call(p, "respondToFriendRequest_v1", "r1_getReq", NoUser, NoUser, "", r, resp)

race_respondToFriendRequest_v1(p) ==
  \E r \in RespondInputs, resp \in {"accepted", "rejected"} :
    RaceCall(p, "respondToFriendRequest_v1", "r1_getReq", NoUser, NoUser, "", r, resp)

\* const requestSnap = await getDoc(requestRef)
r1_getReq(p) ==
  /\ proc[p].pc = "r1_getReq"
  /\ UNCHANGED <<users, friendRequests>>
  /\ IF proc[p].rid \notin RequestIds
       THEN Return(p, "throw", "Friend request not found")
       ELSE /\ proc' = [proc EXCEPT ![p].pc = "r1_updStatus",
                                    ![p].from = friendRequests[proc[p].rid].fromUserId,
                                    ![p].to = friendRequests[proc[p].rid].toUserId]
            /\ UNCHANGED <<result, pre, repeat, calls, picnicVars, viewVars>>

\* await updateDoc(requestRef, {status, updatedAt})
r1_updStatus(p) ==
  /\ proc[p].pc = "r1_updStatus"
  /\ friendRequests' = [friendRequests EXCEPT ![proc[p].rid].status = proc[p].resp]
  /\ UNCHANGED users
  /\ IF IsAccepted(proc[p].resp)
       THEN Goto(p, "r1_getUsers")
       ELSE Return(p, "true", "")

\* After both reads of Promise.all([getDoc(fromUserRef), getDoc(toUserRef)])
r1_afterReads(p, fd, td) ==
  IF fd.st # "set" \/ td.st # "set"
    THEN Return(p, "throw", "One or both users not found")
    ELSE /\ proc' = [proc EXCEPT ![p].pc = "r1_updFrom", ![p].fd = fd, ![p].td = td,
                                 ![p].gotFrom = FALSE, ![p].gotTo = FALSE]
         /\ UNCHANGED <<result, pre, repeat, calls, picnicVars, viewVars>>

\* getDoc(fromUserRef), one of the two concurrent reads
r1_getFrom(p) ==
  /\ proc[p].pc = "r1_getUsers"
  /\ ~proc[p].gotFrom
  /\ UNCHANGED <<users, friendRequests>>
  /\ IF proc[p].gotTo
       THEN r1_afterReads(p, ReadUser(proc[p].from), proc[p].td)
       ELSE /\ proc' = [proc EXCEPT ![p].gotFrom = TRUE, ![p].fd = ReadUser(proc[p].from)]
            /\ UNCHANGED <<result, pre, repeat, calls, picnicVars, viewVars>>

\* getDoc(toUserRef), the other one
r1_getTo(p) ==
  /\ proc[p].pc = "r1_getUsers"
  /\ ~proc[p].gotTo
  /\ UNCHANGED <<users, friendRequests>>
  /\ IF proc[p].gotFrom
       THEN r1_afterReads(p, proc[p].fd, ReadUser(proc[p].to))
       ELSE /\ proc' = [proc EXCEPT ![p].gotTo = TRUE, ![p].td = ReadUser(proc[p].to)]
            /\ UNCHANGED <<result, pre, repeat, calls, picnicVars, viewVars>>

\* updateDoc(userRef, {friends: arrayUnion(friendId),
\*                     [`friendProfiles.${friendId}`]: profile})
AddFriend(us, u, friendId, profile) ==
  [us EXCEPT ![u].friends = ArrayUnion(@, friendId),
             ![u].friendProfiles[friendId] = profile]

\* {name: data.name || 'Unknown User', email: data.email}
Profile_v1(data) == MkProfile(OrDefault(data.name, "Unknown User"), data.email)

\* await updateDoc(fromUserRef, ...): toUser goes into fromUser's list
r1_updFrom(p) ==
  /\ proc[p].pc = "r1_updFrom"
  /\ UNCHANGED friendRequests
  /\ IF users[proc[p].from].exists
       THEN /\ users' = AddFriend(users, proc[p].from, proc[p].to, Profile_v1(proc[p].td))
            /\ Goto(p, "r1_updTo")
       ELSE /\ UNCHANGED users
            /\ Return(p, "throw", "No document to update")

\* await updateDoc(toUserRef, ...): fromUser goes into toUser's list
r1_updTo(p) ==
  /\ proc[p].pc = "r1_updTo"
  /\ UNCHANGED friendRequests
  /\ IF users[proc[p].to].exists
       THEN /\ users' = AddFriend(users, proc[p].to, proc[p].from, Profile_v1(proc[p].fd))
            /\ Return(p, "true", "")
       ELSE /\ UNCHANGED users
            /\ Return(p, "throw", "No document to update")

\* -------------------------------------- respondToFriendRequest, lines 767-834

respondToFriendRequest_v2(p) ==
  \E r \in RespondInputs, resp \in {"accepted", "rejected"} :
    Call(p, "respondToFriendRequest_v2", "r2_getReq", NoUser, NoUser, "", r, resp)

race_respondToFriendRequest_v2(p) ==
  \E r \in RespondInputs, resp \in {"accepted", "rejected"} :
    RaceCall(p, "respondToFriendRequest_v2", "r2_getReq", NoUser, NoUser, "", r, resp)

\* What the caller gets: sendFriendRequest (lines 735-736) ignores the result
\* of the respondToFriendRequest it awaits and reports the acceptance.
RespondReturn_v2(p, success, message) ==
  IF proc[p].op = "sendFriendRequest_v2"
    THEN Return(p, "true", "Friend request accepted!")
    ELSE Return(p, success, message)

RespondFail_v2(p) ==
  IF proc[p].op = "sendFriendRequest_v2"
    THEN ReturnNet(p, "true", "Friend request accepted!")
    ELSE ReturnNet(p, "false", "Failed to process friend request. Please try again.")

\* const requestDoc = await getDoc(requestRef), then the two guards
r2_getReq(p) ==
  /\ proc[p].pc = "r2_getReq"
  /\ UNCHANGED <<users, friendRequests>>
  /\ IF proc[p].rid \notin RequestIds
       THEN RespondReturn_v2(p, "false", "Friend request not found.")
       ELSE IF friendRequests[proc[p].rid].status # "pending"
         THEN RespondReturn_v2(p, "false", "This request has already been processed.")
         ELSE /\ proc' = [proc EXCEPT ![p].pc = "r2_updStatus",
                                      ![p].from = friendRequests[proc[p].rid].fromUserId,
                                      ![p].to = friendRequests[proc[p].rid].toUserId,
                                      ![p].snap = friendRequests[proc[p].rid].fromUser]
              /\ UNCHANGED <<result, pre, repeat, calls, picnicVars, viewVars>>

\* await updateDoc(requestRef, {status: response, updatedAt})
r2_updStatus(p) ==
  /\ proc[p].pc = "r2_updStatus"
  /\ friendRequests' = [friendRequests EXCEPT ![proc[p].rid].status = proc[p].resp]
  /\ UNCHANGED users
  /\ IF IsAccepted(proc[p].resp)
       THEN Goto(p, "r2_getTo")
       ELSE RespondReturn_v2(p, "true", "Friend request rejected successfully.")

\* const toUserDoc = await getDoc(toUserRef)
r2_getTo(p) ==
  /\ proc[p].pc = "r2_getTo"
  /\ UNCHANGED <<users, friendRequests, result, pre, repeat, calls, picnicVars, viewVars>>
  /\ proc' = [proc EXCEPT ![p].pc = "r2_commit", ![p].td = ReadUser(proc[p].to)]

\* {name: data?.name || 'Unknown', email: data?.email || ''}
Profile_v2(data) == MkProfile(OrDefault(data.name, "Unknown"), OrDefault(data.email, ""))

\* The batch of lines 793-818: fromUser's document gets the entry keyed by
\* toUserId, filled from requestData.fromUser; toUser's document gets the entry
\* keyed by fromUserId, filled from toUserData.
AcceptBatch_v2(us, from, to, fromUser, toUserData) ==
  AddFriend(AddFriend(us, from, to, Profile_v2(fromUser)), to, from, Profile_v2(toUserData))

\* await batch.commit()
r2_commit(p) ==
  /\ proc[p].pc = "r2_commit"
  /\ UNCHANGED friendRequests
  /\ IF users[proc[p].from].exists /\ users[proc[p].to].exists
       THEN /\ users' = AcceptBatch_v2(users, proc[p].from, proc[p].to,
                                       proc[p].snap, proc[p].td)
            /\ RespondReturn_v2(p, "true", "Friend request accepted successfully.")
       ELSE /\ UNCHANGED users
            /\ RespondReturn_v2(p, "false", "Failed to process friend request. Please try again.")

\* ------------------------------------------------ removeFriend, lines 941-975

\* batch.update(userRef, {friends: arrayRemove(friendId),
\*                        [`friendProfiles.${friendId}`]: null})
DropFriend(us, u, friendId) ==
  [us EXCEPT ![u].friends = ArrayRemove(@, friendId),
             ![u].friendProfiles[friendId] = NullProfile]

RemoveFirstOnly(us, userId, friendId) == DropFriend(us, userId, friendId)

\* The two updates of the batch, applied together.
RemoveBatch(us, userId, friendId) ==
  DropFriend(DropFriend(us, userId, friendId), friendId, userId)

removeFriend(p) ==
  \E a \in UserIds : \E f \in UserIds \ {a} :
    Call(p, "removeFriend", "rm_commit", a, f, "", 0, "")

\* await batch.commit(): an update of a missing document fails the whole batch
rm_commit(p) ==
  /\ proc[p].pc = "rm_commit"
  /\ UNCHANGED friendRequests
  /\ IF users[proc[p].a].exists /\ users[proc[p].b].exists
       THEN /\ users' = RemoveBatch(users, proc[p].a, proc[p].b)
            /\ Return(p, "true", "Friend removed successfully.")
       ELSE /\ UNCHANGED users
            /\ Return(p, "false", "Failed to remove friend. Please try again.")

\* ------------------------------------------------------- remote call failures

S1Pcs == {"s1_getSender", "s1_findUser", "s1_sentQ", "s1_recvQ", "s1_addDoc",
          "s1_updSender", "s1_updRecipient"}
S2Pcs == {"s2_findUser", "s2_getSender", "s2_existingQ", "s2_reverseQ", "s2_setDoc"}
R1Pcs == {"r1_getReq", "r1_updStatus", "r1_getUsers", "r1_updFrom", "r1_updTo"}
R2Pcs == {"r2_getReq", "r2_updStatus", "r2_getTo", "r2_commit"}

\* The awaited remote call rejects: nothing is written and the catch block of
\* the function the process is in runs.

\* lines 250-263: throw new Error(errorMessage)
Fail_sendFriendRequest_v1(p) ==
  /\ proc[p].pc \in S1Pcs
  /\ UNCHANGED <<users, friendRequests>>
  /\ ReturnNet(p, "throw", "network error")

\* lines 755-761
Fail_sendFriendRequest_v2(p) ==
  /\ proc[p].pc \in S2Pcs
  /\ UNCHANGED <<users, friendRequests>>
  /\ ReturnNet(p, "false", "Failed to send friend request. Please try again.")

\* lines 326-329: throw error
Fail_respondToFriendRequest_v1(p) ==
  /\ proc[p].pc \in R1Pcs
  /\ UNCHANGED <<users, friendRequests>>
  /\ ReturnNet(p, "throw", "network error")

\* lines 827-833
Fail_respondToFriendRequest_v2(p) ==
  /\ proc[p].pc \in R2Pcs
  /\ UNCHANGED <<users, friendRequests>>
  /\ RespondFail_v2(p)

\* lines 968-974
Fail_removeFriend(p) ==
  /\ proc[p].pc = "rm_commit"
  /\ UNCHANGED <<users, friendRequests>>
  /\ ReturnNet(p, "false", "Failed to remove friend. Please try again.")

\* main.tsx lines 16-18: the rejection is logged
Fail_generateMockData(p) ==
  /\ proc[p].pc \in {"gm_getUsers", "gm_create", "gm_update"}
  /\ UNCHANGED <<users, friendRequests>>
  /\ ReturnNet(p, "throw", "network error")

\* What getFriendsList(userId) returns from the store as it is: the entries of
\* friendProfiles whose key is in friends; a null entry reads as 'Unknown'.
getFriendsList_v2(userId) ==
  IF ~users[userId].exists \/ users[userId].friends = <<>>
    THEN {}
    ELSE {[id |-> f,
           name |-> OrDefault(users[userId].friendProfiles[f].name, "Unknown"),
           email |-> users[userId].friendProfiles[f].email] :
          f \in {g \in UserIds : /\ users[userId].friendProfiles[g].st # "absent"
                                 /\ Includes(users[userId].friends, g)}}

\* --------------------------------------------------------------- getFriendsList

\* getFriendsList returns: the list goes to proc[p].list; lost keeps the friend
\* ids whose individual lookup was rejected.  Its outer catch also returns [],
\* so a rejected remote call shows only in net.
ReturnList(p, list, lost, net) ==
  /\ proc' = [proc EXCEPT ![p] = [IdleProc EXCEPT !.op = proc[p].op, !.pc = "done",
                                  !.a = proc[p].a, !.list = list, !.lost = lost]]
  /\ result' = [result EXCEPT ![p] = [success |-> "true", message |-> "",
                                       net |-> net]]
  /\ UNCHANGED <<pre, repeat, calls, picnicVars, viewVars>>

\* Object.keys(userData.friendProfiles).length > 0
HasProfiles(doc) == \E f \in UserIds : doc.friendProfiles[f].st # "absent"

\* lines 462-473: one entry per friend id, from the friendProfiles map
ListFromProfiles_v1(doc) ==
  {[id |-> f,
    name |-> OrDefault(doc.friendProfiles[f].name, "Unknown User"),
    email |-> doc.friendProfiles[f].email] : f \in Range(doc.friends)}

\* lines 479-487: the entry made from a friend's own document
ListFromDoc_v1(f) ==
  [id |-> f, name |-> OrDefault(users[f].name, "Unknown User"), email |-> users[f].email]

getFriendsList_v1(p) ==
  \E u \in UserIds : Call(p, "getFriendsList_v1", "gl1_getUser", u, NoUser, "", 0, "")

\* lines 439-473: getDoc(userRef) and the three early returns
gl1_getUser(p) ==
  /\ proc[p].pc = "gl1_getUser"
  /\ UNCHANGED <<users, friendRequests>>
  /\ LET userData == users[proc[p].a] IN
       IF ~userData.exists THEN Goto(p, "gl1_setDoc")
       ELSE IF userData.friends = <<>> THEN ReturnList(p, {}, {}, FALSE)
       ELSE IF HasProfiles(userData)
         THEN ReturnList(p, ListFromProfiles_v1(userData), {}, FALSE)
         ELSE /\ proc' = [proc EXCEPT ![p].pc = "gl1_lookup",
                                      ![p].todo = Range(userData.friends)]
              /\ UNCHANGED <<result, pre, repeat, calls, picnicVars, viewVars>>

\* lines 443-453: setDoc(userRef, newUser, {merge: true}) for a missing document
gl1_setDoc(p) ==
  /\ proc[p].pc = "gl1_setDoc"
  /\ users' = [users EXCEPT ![proc[p].a] =
                 [@ EXCEPT !.exists = TRUE, !.name = "", !.email = "", !.friends = <<>>]]
  /\ UNCHANGED friendRequests
  /\ ReturnList(p, {}, {}, FALSE)

\* The step that settles the lookup of friend f: the call returns with the
\* last one (lines 495-496).
gl1_settle(p, f, list, lost) ==
  IF proc[p].todo = {f}
    THEN ReturnList(p, list, lost, FALSE)
    ELSE /\ proc' = [proc EXCEPT ![p].todo = @ \ {f}, ![p].list = list, ![p].lost = lost]
         /\ UNCHANGED <<result, pre, repeat, calls, picnicVars, viewVars>>

\* lines 476-489: getDoc(doc(usersCollection, friendId)) of one friend
gl1_lookup(p, f) ==
  /\ proc[p].pc = "gl1_lookup"
  /\ f \in proc[p].todo
  /\ UNCHANGED <<users, friendRequests>>
  /\ gl1_settle(p, f,
                IF users[f].exists THEN proc[p].list \cup {ListFromDoc_v1(f)}
                                   ELSE proc[p].list,
                proc[p].lost)

\* lines 490-493: the lookup of one friend is rejected and yields null
gl1_lookupFail(p, f) ==
  /\ proc[p].pc = "gl1_lookup"
  /\ f \in proc[p].todo
  /\ UNCHANGED <<users, friendRequests>>
  /\ gl1_settle(p, f, proc[p].list, proc[p].lost \cup {f})

\* lines 497-501: the outer catch returns []
Fail_getFriendsList_v1(p) ==
  /\ proc[p].pc \in {"gl1_getUser", "gl1_setDoc"}
  /\ UNCHANGED <<users, friendRequests>>
  /\ ReturnList(p, {}, {}, TRUE)

call_getFriendsList_v2(p) ==
  \E u \in UserIds : Call(p, "getFriendsList_v2", "gl2_getUser", u, NoUser, "", 0, "")

\* lines 900-930: getDoc(userRef), the rest is computed from that document
gl2_getUser(p) ==
  /\ proc[p].pc = "gl2_getUser"
  /\ UNCHANGED <<users, friendRequests>>
  /\ ReturnList(p, getFriendsList_v2(proc[p].a), {}, FALSE)

\* lines 931-935: the catch returns []
Fail_getFriendsList_v2(p) ==
  /\ proc[p].pc = "gl2_getUser"
  /\ UNCHANGED <<users, friendRequests>>
  /\ ReturnList(p, {}, {}, TRUE)

\* ==================================================================== picnics

PicnicIds == {"pic1"}
\* The users who create picnics and send invites.
PicnicHosts == {"u1"}
NotificationIds == 1..MaxNotifications
InviteMessage == <<"You've been invited to join a picnic!">>

\* An entry of participants: the object {id, name, photoURL} that the picnic
\* is created with, or the bare user id that arrayUnion(userId) adds.
ParticipantObject(u) == [id |-> u, object |-> TRUE]
ParticipantId(u) == [id |-> u, object |-> FALSE]

\* A picnic document.  invitedUsers <<>> also stands for the absent field,
\* which the readers take as [] (part_009 line 75).
NoPicnic ==
  [exists |-> FALSE, createdBy |-> NoUser, hostId |-> NoUser,
   participants |-> <<>>, invitedUsers |-> <<>>]

\* The friendIds arguments tried: arrays of distinct ids, and the empty array.
FriendIdInputs ==
  {<<>>} \cup {<<u>> : u \in UserIds}
         \cup {<<"u2", "u3">>}

RECURSIVE ArrayUnionAll(_, _)
\* arrayUnion(...xs): the elements are added in order, each only when missing
ArrayUnionAll(arr, xs) ==
  IF xs = <<>> THEN arr ELSE ArrayUnionAll(ArrayUnion(arr, Head(xs)), Tail(xs))

\* invitedUsers.filter(id => id !== userId)
FilterOut(arr, x) == SelectSeq(arr, LAMBDA y : y # x)

RespondInviteOps == {"respondToPicnicInvite_client", "respondToPicnicInvite_fn"}

IdleFn ==
  [op |-> "idle", pc |-> "idle", picnicId |-> "", uid |-> NoUser, nid |-> 0,
   accept |-> FALSE, friendIds |-> <<>>, todo |-> {}, failed |-> FALSE,
   invitedUsers |-> <<>>, found |-> FALSE, createdBy |-> NoUser, name |-> "",
   currentParticipants |-> <<>>, calls |-> 0]

NoFnResult == [success |-> "none", error |-> "", net |-> FALSE]
NoFnPre == [picnics |-> [c \in PicnicIds |-> NoPicnic], notifications |-> <<>>]

FnReady(p) == fn[p].pc \in {"idle", "done"}

\* A call starts: the arguments are bound and fnPre records the picnic and
\* notification documents as the call found them.
FnCall(p, op, pc, picnicId, uid, nid, accept, friendIds) ==
  /\ FnReady(p)
  /\ fn[p].calls < MaxPicnicCalls
  /\ fn' = [fn EXCEPT ![p] = [IdleFn EXCEPT !.op = op, !.pc = pc,
                               !.picnicId = picnicId, !.uid = uid, !.nid = nid,
                               !.accept = accept, !.friendIds = friendIds,
                               !.calls = fn[p].calls + 1]]
  /\ fnResult' = [fnResult EXCEPT ![p] = NoFnResult]
  /\ fnPre' = [fnPre EXCEPT ![p] = [picnics |-> picnics,
                                     notifications |-> notifications]]
  /\ UNCHANGED <<users, friendVars, viewVars, declined, picnics, notifications>>

FnDone(p, success, error, net) ==
  /\ fn' = [fn EXCEPT ![p] = [IdleFn EXCEPT !.op = fn[p].op, !.pc = "done",
                               !.picnicId = fn[p].picnicId, !.uid = fn[p].uid,
                               !.nid = fn[p].nid, !.accept = fn[p].accept,
                               !.friendIds = fn[p].friendIds,
                               !.calls = fn[p].calls]]
  /\ fnResult' = [fnResult EXCEPT ![p] = [success |-> success, error |-> error,
                                           net |-> net]]
  /\ UNCHANGED <<users, friendVars, viewVars, fnPre>>
  /\ declined' = IF /\ fn[p].op \in RespondInviteOps /\ ~fn[p].accept
                    /\ success = "true"
                   THEN declined \cup {<<fn[p].picnicId, fn[p].uid>>}
                   ELSE declined

\* The call returns {success, error} or throws (success "throw", error the code).
FnReturn(p, success, error) == FnDone(p, success, error, FALSE)

\* The same after a rejected remote call.
FnReturnNet(p, success, error) == FnDone(p, success, error, TRUE)

FnGoto(p, pc) ==
  /\ fn' = [fn EXCEPT ![p].pc = pc]
  /\ UNCHANGED <<users, friendVars, viewVars, declined, fnResult, fnPre>>

\* ------------------------------------------------------------ picnic creation

\* createPicnic(picnicData) of firebase.ts: setDoc of a new document that
\* carries createdBy and participants as user ids.
createPicnic(u, c) ==
  /\ users[u].exists
  /\ ~picnics[c].exists
  /\ picnics' = [picnics EXCEPT ![c] =
                   [NoPicnic EXCEPT !.exists = TRUE, !.createdBy = u,
                                    !.participants = <<ParticipantId(u)>>]]
  /\ UNCHANGED <<users, friendVars, viewVars, declined, notifications, fn, fnResult, fnPre>>

\* handlePhotoTaken: setDoc of a new document that carries hostId and the host
\* as a participant object; it has neither createdBy nor invitedUsers.
handlePhotoTaken(u, c) ==
  /\ users[u].exists
  /\ ~picnics[c].exists
  /\ picnics' = [picnics EXCEPT ![c] =
                   [NoPicnic EXCEPT !.exists = TRUE, !.hostId = u,
                                    !.participants = <<ParticipantObject(u)>>]]
  /\ UNCHANGED <<users, friendVars, viewVars, declined, notifications, fn, fnResult, fnPre>>

\* ---------------------------------------------------------- sendNotification

\* newNotification of sendNotification: the given fields, isRead false
NewNotification(type, senderId, recipientId, picnicId, message) ==
  [type |-> type, senderId |-> senderId, recipientId |-> recipientId,
   picnicId |-> picnicId, message |-> message, isRead |-> FALSE]

sendNotificationOverwrite(ns, n) ==
  IF ns = <<>> THEN <<n>> ELSE [ns EXCEPT ![Len(ns)] = n]

\* setDoc(doc(notificationsCollection), newNotification): one new document
sendNotification(ns, n) == Append(ns, n)

sendPicnicInvite(ns, picnicId, senderId, recipientId, message) ==
  sendNotification(ns, NewNotification("picnic_invite", senderId, recipientId,
                                       picnicId, message))

\* ------------------------------------------------------ inviteFriendsToPicnic

inviteFriendsToPicnic(p) ==
  \E c \in PicnicIds, h \in PicnicHosts, fs \in FriendIdInputs :
    /\ Len(notifications) + Len(fs) <= MaxNotifications
    /\ FnCall(p, "inviteFriendsToPicnic", "in_update", c, h, 0, FALSE, fs)

\* lines 23-32: the argument check and updateDoc(invitedUsers: arrayUnion(...))
in_update(p) ==
  /\ fn[p].pc = "in_update"
  /\ IF fn[p].friendIds = <<>>
       THEN /\ FnReturn(p, "false", "Missing required fields")
            /\ UNCHANGED <<picnics, notifications>>
       ELSE IF ~picnics[fn[p].picnicId].exists
         THEN /\ FnReturn(p, "false", "not-found")
              /\ UNCHANGED <<picnics, notifications>>
         ELSE /\ picnics' = [picnics EXCEPT ![fn[p].picnicId].invitedUsers =
                               ArrayUnionAll(@, fn[p].friendIds)]
              /\ fn' = [fn EXCEPT ![p].pc = "in_notify",
                                  ![p].todo = Range(fn[p].friendIds)]
              /\ declined' = declined \ {<<fn[p].picnicId, f>> : f \in Range(fn[p].friendIds)}
              /\ UNCHANGED <<users, friendVars, viewVars, notifications, fnResult, fnPre>>

\* The outcome of Promise.all once every sendPicnicInvite has settled.
in_settled(p, failed) ==
  IF failed THEN FnReturnNet(p, "false", "network error")
  ELSE FnReturn(p, "true", "")

\* lines 35-46: one of the sendPicnicInvite calls lands; the last one to settle
\* ends the call.
in_notify(p, f) ==
  /\ fn[p].pc = "in_notify"
  /\ f \in fn[p].todo
  /\ notifications' = sendPicnicInvite(notifications, fn[p].picnicId, fn[p].uid,
                                       f, InviteMessage)
  /\ IF fn[p].todo = {f}
       THEN in_settled(p, fn[p].failed)
       ELSE /\ fn' = [fn EXCEPT ![p].todo = @ \ {f}]
            /\ UNCHANGED <<users, friendVars, viewVars, declined, fnResult, fnPre>>
  /\ UNCHANGED picnics

\* One of the sendPicnicInvite calls is rejected.
in_notifyFail(p, f) ==
  /\ fn[p].pc = "in_notify"
  /\ f \in fn[p].todo
  /\ IF fn[p].todo = {f}
       THEN in_settled(p, TRUE)
       ELSE /\ fn' = [fn EXCEPT ![p].todo = @ \ {f}, ![p].failed = TRUE]
            /\ UNCHANGED <<users, friendVars, viewVars, declined, fnResult, fnPre>>
  /\ UNCHANGED <<picnics, notifications>>

\* The updateDoc is rejected.
Fail_inviteFriendsToPicnic(p) ==
  /\ fn[p].pc = "in_update"
  /\ fn[p].friendIds # <<>>
  /\ FnReturnNet(p, "false", "network error")
  /\ UNCHANGED <<picnics, notifications>>

\* ------------------------------- respondToPicnicInvite, client (part_009)

respondToPicnicInvite_client(p) ==
  \E c \in PicnicIds, u \in UserIds, accept \in BOOLEAN :
    FnCall(p, "respondToPicnicInvite_client", "rc_getDoc", c, u, 0, accept, <<>>)

\* lines 67-79: getDoc, then the existence check and the invitedUsers guard
rc_getDoc(p) ==
  /\ fn[p].pc = "rc_getDoc"
  /\ LET picnicData == picnics[fn[p].picnicId]
     IN IF ~picnicData.exists
          THEN FnReturn(p, "false", "Picnic not found")
          ELSE IF ~Includes(picnicData.invitedUsers, fn[p].uid)
            THEN FnReturn(p, "false", "User was not invited to this picnic")
            ELSE /\ fn' = [fn EXCEPT ![p].invitedUsers = picnicData.invitedUsers,
                                     ![p].pc = IF fn[p].accept
                                                 THEN "rc_addParticipant"
                                                 ELSE "rc_removeInvite"]
                 /\ UNCHANGED <<users, friendVars, viewVars, declined, fnResult, fnPre>>
  /\ UNCHANGED <<picnics, notifications>>

\* lines 81-87: updateDoc(participants: arrayUnion(userId))
rc_addParticipant(p) ==
  /\ fn[p].pc = "rc_addParticipant"
  /\ picnics' = [picnics EXCEPT ![fn[p].picnicId].participants =
                   ArrayUnion(@, ParticipantId(fn[p].uid))]
  /\ FnGoto(p, "rc_removeInvite")
  /\ UNCHANGED notifications

\* lines 89-98: updateDoc(invitedUsers: the list read at line 75, filtered)
rc_removeInvite(p) ==
  /\ fn[p].pc = "rc_removeInvite"
  /\ picnics' = [picnics EXCEPT ![fn[p].picnicId].invitedUsers =
                   FilterOut(fn[p].invitedUsers, fn[p].uid)]
  /\ FnReturn(p, "true", "")
  /\ UNCHANGED notifications

Fail_respondToPicnicInvite_client(p) ==
  /\ fn[p].pc \in {"rc_getDoc", "rc_addParticipant", "rc_removeInvite"}
  /\ FnReturnNet(p, "false", "network error")
  /\ UNCHANGED <<picnics, notifications>>

\* ----------------------- respondToPicnicInvite, Cloud Function (part_015)

\* request.auth?.uid: the caller, or none for an unauthenticated request
AuthInputs == UserIds \cup {NoUser}

respondToPicnicInvite_fn(p) ==
  \E c \in PicnicIds, uid \in AuthInputs, n \in NotificationIds,
     accept \in BOOLEAN :
    /\ accept => Len(notifications) < MaxNotifications
    /\ FnCall(p, "respondToPicnicInvite_fn", "cf_getPicnic", c, uid, n, accept, <<>>)

\* lines 10-20: the authentication check, then picnicRef.get()
cf_getPicnic(p) ==
  /\ fn[p].pc = "cf_getPicnic"
  /\ IF fn[p].uid = NoUser
       THEN FnReturn(p, "throw", "unauthenticated")
       ELSE /\ fn' = [fn EXCEPT ![p].pc = "cf_getNotification",
                                ![p].found = picnics[fn[p].picnicId].exists,
                                ![p].createdBy = picnics[fn[p].picnicId].createdBy]
            /\ UNCHANGED <<users, friendVars, viewVars, declined, fnResult, fnPre>>
  /\ UNCHANGED <<picnics, notifications>>

IsRecipientAny(notification, uid) == TRUE

\* line 33: notification?.recipientId !== uid is the permission-denied case
IsRecipient(notification, uid) == notification.recipientId = uid

\* lines 21-38: notificationRef.get(), then the not-found and recipient checks
cf_getNotification(p) ==
  /\ fn[p].pc = "cf_getNotification"
  /\ IF ~fn[p].found \/ fn[p].nid \notin DOMAIN notifications
       THEN FnReturn(p, "throw", "not-found")
       ELSE IF ~IsRecipient(notifications[fn[p].nid], fn[p].uid)
         THEN FnReturn(p, "throw", "permission-denied")
         ELSE FnGoto(p, "cf_markRead")
  /\ UNCHANGED <<picnics, notifications>>

\* line 40: notificationRef.update({isRead: true})
cf_markRead(p) ==
  /\ fn[p].pc = "cf_markRead"
  /\ notifications' = [notifications EXCEPT ![fn[p].nid].isRead = TRUE]
  /\ IF fn[p].accept THEN FnGoto(p, "cf_addParticipant")
                     ELSE FnReturn(p, "true", "")
  /\ UNCHANGED picnics

\* lines 42-49: picnicRef.update(participants: arrayUnion(uid))
cf_addParticipant(p) ==
  /\ fn[p].pc = "cf_addParticipant"
  /\ picnics' = [picnics EXCEPT ![fn[p].picnicId].participants =
                   ArrayUnion(@, ParticipantId(fn[p].uid))]
  /\ IF fn[p].createdBy # NoUser THEN FnGoto(p, "cf_getUser")
                                 ELSE FnReturn(p, "true", "")
  /\ UNCHANGED notifications

\* lines 50-52: the caller's user document is read
cf_getUser(p) ==
  /\ fn[p].pc = "cf_getUser"
  /\ IF users[fn[p].uid].exists
       THEN /\ fn' = [fn EXCEPT ![p].pc = "cf_notify",
                                ![p].name = users[fn[p].uid].name]
            /\ UNCHANGED <<users, friendVars, viewVars, declined, fnResult, fnPre>>
       ELSE FnReturn(p, "true", "")
  /\ UNCHANGED <<picnics, notifications>>

\* lines 53-67: the creator is told of the acceptance
cf_notify(p) ==
  /\ fn[p].pc = "cf_notify"
  /\ notifications' =
       Append(notifications,
              NewNotification("picnic_update", fn[p].uid, fn[p].createdBy,
                              fn[p].picnicId,
                              <<fn[p].name, " has accepted your picnic invite.">>))
  /\ FnReturn(p, "true", "")
  /\ UNCHANGED picnics

Fail_respondToPicnicInvite_fn(p) ==
  /\ fn[p].pc \in {"cf_getNotification", "cf_markRead", "cf_addParticipant",
                   "cf_getUser", "cf_notify"}
  /\ FnReturnNet(p, "throw", "network error")
  /\ UNCHANGED <<picnics, notifications>>

\* ----------------------------------------------------- markNotificationAsRead

markNotificationAsRead(p) ==
  \E uid \in UserIds, n \in NotificationIds :
    FnCall(p, "markNotificationAsRead", "mr_update", "", uid, n, FALSE, <<>>)

\* lines 61-65: updateDoc(isRead: true), rejected when there is no such document
mr_update(p) ==
  /\ fn[p].pc = "mr_update"
  /\ IF fn[p].nid \in DOMAIN notifications
       THEN /\ notifications' = [notifications EXCEPT ![fn[p].nid].isRead = TRUE]
            /\ FnReturn(p, "true", "")
       ELSE /\ FnReturn(p, "throw", "not-found")
            /\ UNCHANGED notifications
  /\ UNCHANGED picnics

Fail_markNotificationAsRead(p) ==
  /\ fn[p].pc = "mr_update"
  /\ FnReturnNet(p, "throw", "network error")
  /\ UNCHANGED <<picnics, notifications>>

\* ================================================================= FriendsTab
\* src/src/pages/FriendsTab.tsx: the live subscription on the pending requests
\* addressed to the signed-in user.  friendsTab.handlers holds one entry per
\* delivered snapshot, in delivery order: the snapshot's documents (each named
\* by its fromUserId), the index of the next document, and the requests array
\* built so far.  lateWrites counts the setRawRequests calls made after the
\* subscription was torn down.  The one-shot loadData of the same effect is
\* not modelled.

\* The senders whose pending requests a snapshot may hold, in document order.
SnapshotInputs == {<<>>, <<"u2">>, <<"u3">>, <<"u2", "u3">>}

NoFriendsTab ==
  [mounted |-> "no", rawRequests |-> <<>>, handlers |-> <<>>, lateWrites |-> 0]

\* lines 231-233, 318-319: the effect subscribes with setupRequestsListener
FriendsTab_mount ==
  /\ friendsTab.mounted = "no"
  /\ friendsTab' = [friendsTab EXCEPT !.mounted = "yes"]
  /\ UNCHANGED <<users, friendVars, picnicVars, exceptFriendsTab>>

\* lines 321-324: the cleanup calls unsubscribeRequests
FriendsTab_unmount ==
  /\ friendsTab.mounted = "yes"
  /\ friendsTab' = [friendsTab EXCEPT !.mounted = "gone"]
  /\ UNCHANGED <<users, friendVars, picnicVars, exceptFriendsTab>>

\* line 403: setRawRequests(requests), the whole list is replaced
setRawRequests(tab, requests) ==
  [tab EXCEPT !.rawRequests = requests,
              !.lateWrites = IF tab.mounted = "yes" THEN @ ELSE @ + 1]

\* lines 366-368: a snapshot is delivered and its handler starts; with no
\* document the handler reaches setRawRequests without awaiting.
rq_onSnapshot(docs) ==
  /\ friendsTab.mounted = "yes"
  /\ Len(friendsTab.handlers) < MaxSnapshots
  /\ LET h == [docs |-> docs, i |-> 1, requests |-> <<>>, running |-> docs # <<>>]
         tab == [friendsTab EXCEPT !.handlers = Append(@, h)]
     IN  friendsTab' = IF docs = <<>> THEN setRawRequests(tab, <<>>) ELSE tab
  /\ UNCHANGED <<users, friendVars, picnicVars, exceptFriendsTab>>

\* lines 377-400: getDoc(users/fromUserId) of the handler's next document
\* resolves; after the last document, line 403.
rq_getDoc(k) ==
  /\ k \in DOMAIN friendsTab.handlers
  /\ friendsTab.handlers[k].running
  /\ LET h == friendsTab.handlers[k]
         f == h.docs[h.i]
         requests == IF users[f].exists
                       THEN Append(h.requests, [id |-> f, fromUserId |-> f])
                       ELSE h.requests
         last == h.i = Len(h.docs)
         tab == [friendsTab EXCEPT !.handlers[k].requests = requests,
                                   !.handlers[k].i = @ + 1,
                                   !.handlers[k].running = ~last]
     IN  friendsTab' = IF last THEN setRawRequests(tab, requests) ELSE tab
  /\ UNCHANGED <<users, friendVars, picnicVars, exceptFriendsTab>>

\* The getDoc is rejected: the handler's promise rejects and nothing is set.
rq_getDocFail(k) ==
  /\ k \in DOMAIN friendsTab.handlers
  /\ friendsTab.handlers[k].running
  /\ friendsTab' = [friendsTab EXCEPT !.handlers[k].running = FALSE,
                                      !.handlers[k].i = 0]
  /\ UNCHANGED <<users, friendVars, picnicVars, exceptFriendsTab>>

\* ======================================================= NotificationProvider
\* src/src/contexts/NotificationContext.tsx for the signed-in user CtxUser:
\* the notifications state (ids, in snapshot order), unreadCount, and the
\* markAsRead calls in flight, each at its remote write ("update"), at the
\* state updates that follow it ("filter"), or ended.

CtxUser == "u1"

NoNotificationCtx == [notifications |-> <<>>, unreadCount |-> 0, calls |-> <<>>]

\* lines 51-55: the documents with recipientId == uid and isRead == false
UnreadQuery(uid) ==
  LET ids == {n \in DOMAIN notifications :
                notifications[n].recipientId = uid /\ ~notifications[n].isRead}
      pick[k \in 0..Len(notifications)] ==
        IF k = 0 THEN <<>>
        ELSE IF k \in ids THEN Append(pick[k - 1], k) ELSE pick[k - 1]
  IN  pick[Len(notifications)]

\* prev.filter(n => n.id !== notificationId)
FilterId(list, id) ==
  LET keep[k \in 0..Len(list)] ==
        IF k = 0 THEN <<>>
        ELSE IF list[k] # id THEN Append(keep[k - 1], list[k]) ELSE keep[k - 1]
  IN  keep[Len(list)]

\* Math.max(0, prev - 1)
Decrement(prev) == IF prev - 1 > 0 THEN prev - 1 ELSE 0

\* Another client's sendPicnicInvite to CtxUser lands in the store.
nc_inviteArrives ==
  /\ Len(notifications) < MaxNotifications
  /\ notifications' = sendPicnicInvite(notifications, "pic1", "u2", CtxUser,
                                       InviteMessage)
  /\ UNCHANGED <<users, friendVars, viewVars, picnics, fn, fnResult, fnPre, declined>>

\* lines 57-64: a snapshot of the query is delivered
nc_onSnapshot ==
  /\ LET updatedNotifications == UnreadQuery(CtxUser)
     IN  notificationCtx' =
           [notificationCtx EXCEPT !.notifications = updatedNotifications,
                                   !.unreadCount = Len(updatedNotifications)]
  /\ UNCHANGED <<users, friendVars, picnicVars, exceptNotificationCtx>>

\* line 69: markAsRead(notificationId) is called for a listed notification
nc_markAsRead(id) ==
  /\ id \in Range(notificationCtx.notifications)
  /\ Len(notificationCtx.calls) < MaxMarkCalls
  /\ notificationCtx' =
       [notificationCtx EXCEPT !.calls = Append(@, [id |-> id, pc |-> "update"])]
  /\ UNCHANGED <<users, friendVars, picnicVars, exceptNotificationCtx>>

\* part_003 lines 115-119: "Mark all as read" calls markAsRead for every
\* listed notification; the button is disabled when unreadCount is 0.
nc_markAll ==
  /\ notificationCtx.unreadCount # 0
  /\ notificationCtx.notifications # <<>>
  /\ Len(notificationCtx.calls) + Len(notificationCtx.notifications) <= MaxMarkCalls
  /\ notificationCtx' =
       [notificationCtx EXCEPT !.calls =
          @ \o [k \in DOMAIN notificationCtx.notifications |->
                  [id |-> notificationCtx.notifications[k], pc |-> "update"]]]
  /\ UNCHANGED <<users, friendVars, picnicVars, exceptNotificationCtx>>

\* line 71: await markNotificationAsRead(notificationId), the remote write
nc_update(k) ==
  /\ k \in DOMAIN notificationCtx.calls
  /\ notificationCtx.calls[k].pc = "update"
  /\ notifications' = [notifications EXCEPT ![notificationCtx.calls[k].id].isRead = TRUE]
  /\ notificationCtx' = [notificationCtx EXCEPT !.calls[k].pc = "filter"]
  /\ UNCHANGED <<users, friendVars, exceptNotificationCtx,
                 picnics, fn, fnResult, fnPre, declined>>

\* lines 76-78: the write is rejected and the error is logged
nc_updateFail(k) ==
  /\ k \in DOMAIN notificationCtx.calls
  /\ notificationCtx.calls[k].pc = "update"
  /\ notificationCtx' = [notificationCtx EXCEPT !.calls[k].pc = "done"]
  /\ UNCHANGED <<users, friendVars, picnicVars, exceptNotificationCtx>>

\* lines 72-75: setNotifications(filter) and setUnreadCount(decrement)
nc_filter(k) ==
  /\ k \in DOMAIN notificationCtx.calls
  /\ notificationCtx.calls[k].pc = "filter"
  /\ notificationCtx' =
       [notificationCtx EXCEPT
          !.notifications = FilterId(@, notificationCtx.calls[k].id),
          !.unreadCount = Decrement(@),
          !.calls[k].pc = "done"]
  /\ UNCHANGED <<users, friendVars, picnicVars, exceptNotificationCtx>>

\* ------------------------------ JoinPicnicFlow.handlePhotoTaken (join flow)
\* src/src/components/LoadingSpinner.tsx lines 106-167, with getDocument and
\* updateDocument of src/unnamed/part_011.

\* The calls a client may still start in the interleaved runs.
RaceBudget(p) == fn[p].calls < (IF p \in SeqProcs THEN MaxPicnicCalls ELSE MaxRaceCalls)

\* currentParticipants.findIndex(p => p.id === uid): 0 stands for -1.  A bare
\* user id has no id property.
FindParticipantIndex(ps, uid) ==
  LET hits == {i \in DOMAIN ps : ps[i].object /\ ps[i].id = uid}
  IN  IF hits = {} THEN 0 ELSE CHOOSE i \in hits : \A j \in hits : i <= j

\* lines 147-152: the copy with the user's entry replaced or pushed
UpdatedParticipants(ps, uid) ==
  LET i == FindParticipantIndex(ps, uid)
  IN  IF i > 0 THEN [ps EXCEPT ![i] = ParticipantObject(uid)]
               ELSE Append(ps, ParticipantObject(uid))

\* line 107: the flow runs for a signed-in user once the picnic was loaded
join_handlePhotoTaken(p) ==
  \E c \in PicnicIds, u \in UserIds :
    /\ picnics[c].exists
    /\ RaceBudget(p)
    /\ FnCall(p, "join_handlePhotoTaken", "jp_upload", c, u, 0, FALSE, <<>>)

\* lines 119-126: uploadBytes and getDownloadURL
jp_upload(p) ==
  /\ fn[p].pc = "jp_upload"
  /\ FnGoto(p, "jp_getDocument")
  /\ UNCHANGED <<picnics, notifications>>

\* lines 129-130: getDocument('picnics', picnicId), participants or []
jp_getDocument(p) ==
  /\ fn[p].pc = "jp_getDocument"
  /\ fn' = [fn EXCEPT ![p].pc = "jp_updateDocument",
                      ![p].currentParticipants =
                         IF picnics[fn[p].picnicId].exists
                           THEN picnics[fn[p].picnicId].participants ELSE <<>>]
  /\ UNCHANGED <<users, friendVars, viewVars, declined, fnResult, fnPre,
                 picnics, notifications>>

\* part_011 lines 313-316: the read is rejected, getDocument returns null and
\* the flow goes on with no current participants
jp_getDocumentFail(p) ==
  /\ fn[p].pc = "jp_getDocument"
  /\ fn' = [fn EXCEPT ![p].pc = "jp_updateDocument", ![p].currentParticipants = <<>>]
  /\ UNCHANGED <<users, friendVars, viewVars, declined, fnResult, fnPre,
                 picnics, notifications>>

\* lines 155-161: updateDocument(participants: updatedParticipants), onComplete()
jp_updateDocument(p) ==
  /\ fn[p].pc = "jp_updateDocument"
  /\ picnics' = [picnics EXCEPT ![fn[p].picnicId].participants =
                   UpdatedParticipants(fn[p].currentParticipants, fn[p].uid)]
  /\ FnReturn(p, "true", "")
  /\ UNCHANGED notifications

\* lines 163-166: the upload or the update is rejected, setError
Fail_join_handlePhotoTaken(p) ==
  /\ fn[p].pc \in {"jp_upload", "jp_updateDocument"}
  /\ FnReturnNet(p, "false", "Failed to join picnic")
  /\ UNCHANGED <<picnics, notifications>>

\* =============================================================== AuthProvider
\* src/src/contexts/AuthContext.tsx lines 126-143 (AuthSimple.tsx lines 31-44
\* is the same code): currentUser, userData and loading, and the getUser reads
\* started by the auth-state callbacks, in the order of the callbacks.
\* userData is kept as the id of the user whose document it is, NoUser for
\* null; every user document is taken to carry a username.

NoAuthCtx == [currentUser |-> NoUser, userData |-> NoUser, loading |-> TRUE,
              reads |-> <<>>, events |-> 0]

\* onAuthStateChanged fires with user (NoUser for null): setCurrentUser(user);
\* for null also setUserData(null) and setLoading(false), otherwise the
\* callback awaits getUser(user.uid).
auth_onAuthStateChanged(user) ==
  /\ authCtx.events < MaxAuthEvents
  /\ authCtx.events = 0 \/ user # authCtx.currentUser
  /\ authCtx' =
       IF user = NoUser
         THEN [authCtx EXCEPT !.currentUser = NoUser, !.userData = NoUser,
                              !.loading = FALSE, !.events = @ + 1]
         ELSE [authCtx EXCEPT !.currentUser = user, !.events = @ + 1,
                              !.reads = Append(@, [uid |-> user, running |-> TRUE])]
  /\ UNCHANGED <<users, friendVars, picnicVars, exceptAuthCtx>>

\* getUser(user.uid) resolves (firebase.ts lines 535-538): setUserData(userDoc),
\* setLoading(false)
auth_getUser(k) ==
  /\ k \in DOMAIN authCtx.reads
  /\ authCtx.reads[k].running
  /\ authCtx' =
       [authCtx EXCEPT !.userData = IF users[authCtx.reads[k].uid].exists
                                      THEN authCtx.reads[k].uid ELSE NoUser,
                       !.loading = FALSE,
                       !.reads[k].running = FALSE]
  /\ UNCHANGED <<users, friendVars, picnicVars, exceptAuthCtx>>

\* getUser rejects: the callback's promise rejects, nothing more is set
auth_getUserFail(k) ==
  /\ k \in DOMAIN authCtx.reads
  /\ authCtx.reads[k].running
  /\ authCtx' = [authCtx EXCEPT !.reads[k].running = FALSE]
  /\ UNCHANGED <<users, friendVars, picnicVars, exceptAuthCtx>>

\* part_002 lines 13-33: ProfileCompleteRoute renders its children
RendersChildren ==
  /\ ~authCtx.loading
  /\ authCtx.currentUser # NoUser
  /\ authCtx.userData # NoUser

\* ============================================================= RestaurantsTab
\* src/src/pages/RestaurantsTab.tsx lines 274-331 for one signed-in user:
\* docs is the user's savedRestaurants subcollection (a deleted document keeps
\* its place in the sequence), savedRestaurants the Set of place ids in the
\* component's state, calls the toggleSaveRestaurant calls made so far.

PlaceIds == {"r1", "r2"}

NoRestaurantsTab == [docs |-> <<>>, savedRestaurants |-> {}, calls |-> <<>>]

\* lines 281-284: query(savedRestaurants, placeId == restaurantId)
SavedQuery(docs, placeId) ==
  {d \in DOMAIN docs : docs[d].placeId = placeId /\ ~docs[d].deleted}

\* line 275: toggleSaveRestaurant(restaurant) is called
toggleSaveRestaurant(placeId) ==
  /\ Len(restaurantsTab.calls) < MaxToggles
  /\ restaurantsTab' =
       [restaurantsTab EXCEPT !.calls =
          Append(@, [placeId |-> placeId, pc |-> "getDocs", docId |-> 0])]
  /\ UNCHANGED <<users, friendVars, picnicVars, exceptRestaurantsTab>>

\* lines 286-290: getDocs(savedQuery); docs[0] is any of the matching
\* documents, their ids being random
ts_getDocs(k) ==
  /\ k \in DOMAIN restaurantsTab.calls
  /\ restaurantsTab.calls[k].pc = "getDocs"
  /\ LET found == SavedQuery(restaurantsTab.docs, restaurantsTab.calls[k].placeId)
     IN  IF found = {}
           THEN restaurantsTab' = [restaurantsTab EXCEPT !.calls[k].pc = "addDoc"]
           ELSE \E d \in found :
                  restaurantsTab' = [restaurantsTab EXCEPT !.calls[k].pc = "deleteDoc",
                                                           !.calls[k].docId = d]
  /\ UNCHANGED <<users, friendVars, picnicVars, exceptRestaurantsTab>>

\* lines 291-298: deleteDoc, then the place id leaves the local Set
ts_deleteDoc(k) ==
  /\ k \in DOMAIN restaurantsTab.calls
  /\ restaurantsTab.calls[k].pc = "deleteDoc"
  /\ restaurantsTab' =
       [restaurantsTab EXCEPT
          !.docs[restaurantsTab.calls[k].docId].deleted = TRUE,
          !.savedRestaurants = @ \ {restaurantsTab.calls[k].placeId},
          !.calls[k].pc = "done"]
  /\ UNCHANGED <<users, friendVars, picnicVars, exceptRestaurantsTab>>

\* lines 305-325: addDoc, then the place id joins the local Set
ts_addDoc(k) ==
  /\ k \in DOMAIN restaurantsTab.calls
  /\ restaurantsTab.calls[k].pc = "addDoc"
  /\ restaurantsTab' =
       [restaurantsTab EXCEPT
          !.docs = Append(@, [placeId |-> restaurantsTab.calls[k].placeId,
                              deleted |-> FALSE]),
          !.savedRestaurants = @ \cup {restaurantsTab.calls[k].placeId},
          !.calls[k].pc = "done"]
  /\ UNCHANGED <<users, friendVars, picnicVars, exceptRestaurantsTab>>

\* lines 327-329: a remote call is rejected and the error is logged
Fail_toggleSaveRestaurant(k) ==
  /\ k \in DOMAIN restaurantsTab.calls
  /\ restaurantsTab.calls[k].pc \in {"getDocs", "deleteDoc", "addDoc"}
  /\ restaurantsTab' = [restaurantsTab EXCEPT !.calls[k].pc = "done"]
  /\ UNCHANGED <<users, friendVars, picnicVars, exceptRestaurantsTab>>

\* ================================================================== messaging
\* src/src/services/messaging.ts lines 23-100: one getFcmToken call at a time.
\* messaging.pc is the await the call is at, uid is auth.currentUser, result
\* what the call returned ("token" or "null"), fcmTokens the users whose
\* document lists the token.

NoMessaging ==
  [pc |-> "idle", uid |-> NoUser, result |-> "none", fcmTokens |-> {}]

\* What await getToken(messaging, {vapidKey}) may give: a token, an empty
\* token, or a rejection.
TokenAnswers == {"token", "empty", "reject"}

\* The call returns.
fm_return(value) == [messaging EXCEPT !.pc = "done", !.result = value]

\* line 52: getFcmToken() is called
getFcmToken ==
  /\ messaging.pc \in {"idle", "done"}
  /\ \E uid \in AuthInputs :
       messaging' = [messaging EXCEPT !.pc = "initMessaging", !.uid = uid,
                                      !.result = "none"]
  /\ UNCHANGED <<users, friendVars, picnicVars, exceptMessaging>>

\* lines 53-54 with initMessaging (lines 23-38): isSupported()
fm_initMessaging ==
  /\ messaging.pc = "initMessaging"
  /\ \E supported \in BOOLEAN :
       messaging' = IF supported THEN [messaging EXCEPT !.pc = "getToken"]
                                 ELSE fm_return("null")
  /\ UNCHANGED <<users, friendVars, picnicVars, exceptMessaging>>

\* lines 57-63 and 69-72: getToken; with a token, saveTokenToFirestore, which
\* returns at once when nobody is signed in (lines 77-78)
fm_getToken ==
  /\ messaging.pc = "getToken"
  /\ \E currentToken \in TokenAnswers :
       messaging' =
         CASE currentToken = "reject" -> fm_return("null")
           [] currentToken = "empty" -> [messaging EXCEPT !.pc = "requestPermission"]
           [] OTHER -> IF messaging.uid = NoUser
                         THEN fm_return("token")
                         ELSE [messaging EXCEPT !.pc = "st_getDoc"]
  /\ UNCHANGED <<users, friendVars, picnicVars, exceptMessaging>>

\* lines 63-67 with requestPermission (lines 41-49): when granted,
\* return getFcmToken()
fm_requestPermission ==
  /\ messaging.pc = "requestPermission"
  /\ \E permissionGranted \in BOOLEAN :
       messaging' = IF permissionGranted
                      THEN [messaging EXCEPT !.pc = "initMessaging"]
                      ELSE fm_return("null")
  /\ UNCHANGED <<users, friendVars, picnicVars, exceptMessaging>>

\* lines 82-87: getDoc(userRef) and the includes check
st_getDoc ==
  /\ messaging.pc = "st_getDoc"
  /\ messaging' = IF messaging.uid \in messaging.fcmTokens
                    THEN fm_return("token")
                    ELSE [messaging EXCEPT !.pc = "st_setDoc"]
  /\ UNCHANGED <<users, friendVars, picnicVars, exceptMessaging>>

\* lines 88-95: setDoc(userRef, {fcmTokens}, {merge: true}), then line 60
st_setDoc ==
  /\ messaging.pc = "st_setDoc"
  /\ users' = [users EXCEPT ![messaging.uid].exists = TRUE]
  /\ messaging' = [fm_return("token") EXCEPT !.fcmTokens = @ \cup {messaging.uid}]
  /\ UNCHANGED <<friendVars, picnicVars, exceptMessaging>>

\* lines 97-99: the read or the write is rejected, the error is logged and
\* getFcmToken returns the token all the same
st_fail ==
  /\ messaging.pc \in {"st_getDoc", "st_setDoc"}
  /\ messaging' = fm_return("token")
  /\ UNCHANGED <<users, friendVars, picnicVars, exceptMessaging>>

\* ------------------------------------------------------------- specification

Init ==
  /\ users = [u \in UserIds |-> NoUserDoc]
  /\ calls = [p \in Procs |-> 0]
  /\ friendRequests = <<>>
  /\ proc = [p \in Procs |-> IdleProc]
  /\ result = [p \in Procs |-> NoResult]
  /\ pre = [p \in Procs |-> NoPre]
  /\ repeat = [p \in Procs |-> FALSE]
  /\ picnics = [c \in PicnicIds |-> NoPicnic]
  /\ notifications = <<>>
  /\ fn = [p \in Procs |-> IdleFn]
  /\ fnResult = [p \in Procs |-> NoFnResult]
  /\ fnPre = [p \in Procs |-> NoFnPre]
  /\ declined = {}
  /\ friendsTab = NoFriendsTab
  /\ notificationCtx = NoNotificationCtx
  /\ authCtx = NoAuthCtx
  /\ restaurantsTab = NoRestaurantsTab
  /\ messaging = NoMessaging

\* The steps inside the four friend-request functions.
RequestSteps(p) ==
  \/ s1_getSender(p) \/ s1_findUser(p) \/ s1_sentQ(p)
  \/ s1_recvQ(p) \/ s1_addDoc(p) \/ s1_updSender(p) \/ s1_updRecipient(p)
  \/ s2_findUser(p) \/ s2_getSender(p) \/ s2_existingQ(p)
  \/ s2_reverseQ(p) \/ s2_setDoc(p)
  \/ r1_getReq(p) \/ r1_updStatus(p) \/ r1_getFrom(p)
  \/ r1_getTo(p) \/ r1_updFrom(p) \/ r1_updTo(p)
  \/ r2_getReq(p) \/ r2_updStatus(p) \/ r2_getTo(p)
  \/ r2_commit(p)
  \/ Fail_sendFriendRequest_v1(p) \/ Fail_sendFriendRequest_v2(p)
  \/ Fail_respondToFriendRequest_v1(p) \/ Fail_respondToFriendRequest_v2(p)

FriendStep(p) ==
  \/ generateMockData(p) \/ gm_getUsers(p)
  \/ \E i \in {1, 2} : gm_createUser(p, i)
  \/ \E i \in {1, 2} : gm_updateFriends(p, i)
  \/ Fail_generateMockData(p)
  \/ sendFriendRequest_v1(p) \/ sendFriendRequest_v2(p)
  \/ respondToFriendRequest_v1(p) \/ respondToFriendRequest_v2(p)
  \/ RequestSteps(p)
  \/ removeFriend(p) \/ rm_commit(p) \/ Fail_removeFriend(p)
  \/ getFriendsList_v1(p) \/ gl1_getUser(p) \/ gl1_setDoc(p)
  \/ \E f \in UserIds : gl1_lookup(p, f)
  \/ \E f \in UserIds : gl1_lookupFail(p, f)
  \/ Fail_getFriendsList_v1(p)
  \/ call_getFriendsList_v2(p) \/ gl2_getUser(p) \/ Fail_getFriendsList_v2(p)

RaceStep(p) ==
  \/ race_sendFriendRequest_v1(p) \/ race_sendFriendRequest_v2(p)
  \/ race_respondToFriendRequest_v1(p) \/ race_respondToFriendRequest_v2(p)
  \/ RequestSteps(p)

SignUp == \E u \in UserIds : createUser(u)

RaceSignUp == \E u \in RaceUsers : createUser(u)

\* One client at a time: calls do not overlap.
Quiet == \A p \in SeqProcs : Ready(p)

Next == (Quiet /\ SignUp) \/ \E p \in SeqProcs : FriendStep(p)

\* Two clients whose calls interleave at their awaits.
NextRace == RaceSignUp \/ \E p \in Procs : RaceStep(p)

Spec == Init /\ [][Next]_vars

SpecRace == Init /\ [][NextRace]_vars

PicnicStep(p) ==
  \/ inviteFriendsToPicnic(p) \/ in_update(p)
  \/ \E f \in UserIds : in_notify(p, f)
  \/ \E f \in UserIds : in_notifyFail(p, f)
  \/ Fail_inviteFriendsToPicnic(p)
  \/ respondToPicnicInvite_client(p) \/ rc_getDoc(p)
  \/ rc_addParticipant(p) \/ rc_removeInvite(p)
  \/ Fail_respondToPicnicInvite_client(p)
  \/ respondToPicnicInvite_fn(p) \/ cf_getPicnic(p) \/ cf_getNotification(p)
  \/ cf_markRead(p) \/ cf_addParticipant(p) \/ cf_getUser(p) \/ cf_notify(p)
  \/ Fail_respondToPicnicInvite_fn(p)
  \/ markNotificationAsRead(p) \/ mr_update(p) \/ Fail_markNotificationAsRead(p)

\* A picnic is created, by either of the two creators.
NewPicnic ==
  \E u \in PicnicHosts, c \in PicnicIds : createPicnic(u, c) \/ handlePhotoTaken(u, c)

QuietPicnic == \A p \in SeqProcs : FnReady(p)

\* One picnic client at a time; users sign up and picnics are created between
\* the calls.
NextPicnic ==
  \/ QuietPicnic /\ SignUp
  \/ QuietPicnic /\ NewPicnic
  \/ \E p \in SeqProcs : PicnicStep(p)

SpecPicnic == Init /\ [][NextPicnic]_vars

\* The friend requests view: users sign up while snapshots are delivered and
\* their handlers run, interleaved at the awaits.
NextFriendsTab ==
  \/ SignUp
  \/ FriendsTab_mount
  \/ FriendsTab_unmount
  \/ \E docs \in SnapshotInputs : rq_onSnapshot(docs)
  \/ \E k \in 1..MaxSnapshots : rq_getDoc(k)
  \/ \E k \in 1..MaxSnapshots : rq_getDocFail(k)

SpecFriendsTab == Init /\ [][NextFriendsTab]_vars

\* The notification provider: invites arrive, snapshots are delivered and
\* markAsRead calls run, interleaved at their awaits.
NextNotificationCtx ==
  \/ nc_inviteArrives
  \/ nc_onSnapshot
  \/ \E id \in NotificationIds : nc_markAsRead(id)
  \/ nc_markAll
  \/ \E k \in 1..MaxMarkCalls : nc_update(k)
  \/ \E k \in 1..MaxMarkCalls : nc_updateFail(k)
  \/ \E k \in 1..MaxMarkCalls : nc_filter(k)

SpecNotificationCtx == Init /\ [][NextNotificationCtx]_vars

\* The invite and client response calls of two clients, interleaved at their
\* awaits: the host's client invites u2 and u3, and the clients of u2 and u3
\* respond; the second client makes MaxRaceCalls calls.
RaceFriendIds == {<<"u2">>, <<"u3">>}
RaceGuests == {"u2", "u3"}

race_inviteFriendsToPicnic(p) ==
  \E c \in PicnicIds, h \in PicnicHosts, fs \in RaceFriendIds :
    /\ Len(notifications) + Len(fs) <= MaxNotifications
    /\ RaceBudget(p)
    /\ FnCall(p, "inviteFriendsToPicnic", "in_update", c, h, 0, FALSE, fs)

race_respondToPicnicInvite_client(p) ==
  \E c \in PicnicIds, u \in RaceGuests, accept \in BOOLEAN :
    /\ RaceBudget(p)
    /\ FnCall(p, "respondToPicnicInvite_client", "rc_getDoc", c, u, 0, accept, <<>>)

PicnicRaceStep(p) ==
  \/ race_inviteFriendsToPicnic(p) \/ in_update(p)
  \/ \E f \in UserIds : in_notify(p, f)
  \/ \E f \in UserIds : in_notifyFail(p, f)
  \/ Fail_inviteFriendsToPicnic(p)
  \/ race_respondToPicnicInvite_client(p) \/ rc_getDoc(p)
  \/ rc_addParticipant(p) \/ rc_removeInvite(p)
  \/ Fail_respondToPicnicInvite_client(p)

HostSignUp == \E u \in PicnicHosts : createUser(u)

NextPicnicRace ==
  \/ HostSignUp
  \/ NewPicnic
  \/ \E p \in Procs : PicnicRaceStep(p)

SpecPicnicRace == Init /\ [][NextPicnicRace]_vars

\* The join flows of two clients, interleaved at their awaits.
JoinStep(p) ==
  \/ join_handlePhotoTaken(p) \/ jp_upload(p)
  \/ jp_getDocument(p) \/ jp_getDocumentFail(p)
  \/ jp_updateDocument(p) \/ Fail_join_handlePhotoTaken(p)

NextJoin ==
  \/ HostSignUp
  \/ NewPicnic
  \/ \E p \in Procs : JoinStep(p)

SpecJoin == Init /\ [][NextJoin]_vars

\* The auth provider: users sign up, auth-state callbacks fire and their
\* getUser reads complete in any order.
NextAuth ==
  \/ RaceSignUp
  \/ \E user \in RaceUsers \cup {NoUser} : auth_onAuthStateChanged(user)
  \/ \E k \in 1..MaxAuthEvents : auth_getUser(k)
  \/ \E k \in 1..MaxAuthEvents : auth_getUserFail(k)

SpecAuth == Init /\ [][NextAuth]_vars

\* The restaurants view: toggleSaveRestaurant calls interleaved at their awaits.
NextRestaurantsTab ==
  \/ \E placeId \in PlaceIds : toggleSaveRestaurant(placeId)
  \/ \E k \in 1..MaxToggles :
       \/ ts_getDocs(k) \/ ts_deleteDoc(k) \/ ts_addDoc(k)
       \/ Fail_toggleSaveRestaurant(k)

SpecRestaurantsTab == Init /\ [][NextRestaurantsTab]_vars

\* The steps of a running getFcmToken call.
MessagingStep ==
  \/ fm_initMessaging \/ fm_getToken \/ fm_requestPermission
  \/ st_getDoc \/ st_setDoc \/ st_fail

NextMessaging == SignUp \/ getFcmToken \/ MessagingStep

\* Every awaited promise of a running call settles.
SpecMessaging == Init /\ [][NextMessaging]_vars /\ WF_vars(MessagingStep)

\* ------------------------------------------------------------------- claims

\* The step on which process p's call returns or throws.
Completes(p) == proc[p].pc # "done" /\ proc'[p].pc = "done"

Done(p, ops) == proc[p].pc = "done" /\ proc[p].op \in ops

Failed(p) == result[p].success \in {"false", "throw"}

\* The request documents from a to b in a friendRequests collection.
RequestsFromTo(reqs, a, b) ==
  {r \in DOMAIN reqs : reqs[r].fromUserId = a /\ reqs[r].toUserId = b}

PendingFromTo(reqs, a, b) ==
  {r \in RequestsFromTo(reqs, a, b) : reqs[r].status = "pending"}

\* The user whose email the caller typed, and the caller: distinct users whose
\* documents existed, B's holding that email, when the call started.
ValidPair(p, A, B) ==
  /\ A = proc[p].a /\ B # A /\ proc[p].email = UserEmail(B)
  /\ pre[p].users[A].exists /\ pre[p].users[B].exists
  /\ pre[p].users[B].email = proc[p].email

NoPriorRequest(p, A, B) ==
  /\ RequestsFromTo(pre[p].friendRequests, A, B) = {}
  /\ RequestsFromTo(pre[p].friendRequests, B, A) = {}

CreatedOnePending(p, A, B) ==
  /\ result[p].success = "true"
  /\ Len(friendRequests) = Len(pre[p].friendRequests) + 1
  /\ Cardinality(RequestsFromTo(friendRequests, A, B)) = 1
  /\ Cardinality(PendingFromTo(friendRequests, A, B)) = 1

OnePendingBefore(p, A, B) ==
  /\ Cardinality(RequestsFromTo(pre[p].friendRequests, A, B)) = 1
  /\ Cardinality(PendingFromTo(pre[p].friendRequests, A, B)) = 1

DuplicateRejected(p, A, B) ==
  /\ Failed(p)
  /\ friendRequests = pre[p].friendRequests

C1_SecondSend(p) ==
  \A A \in UserIds, B \in UserIds :
    ValidPair(p, A, B) /\ OnePendingBefore(p, A, B) => DuplicateRejected(p, A, B)

C1_FirstSendOriginal(p) ==
  \A A \in UserIds, B \in UserIds :
    ValidPair(p, A, B) /\ NoPriorRequest(p, A, B) /\ ~result[p].net
      => CreatedOnePending(p, A, B)

C1_FirstSend(p) ==
  \A A \in UserIds, B \in UserIds :
    /\ ValidPair(p, A, B) /\ NoPriorRequest(p, A, B) /\ ~result[p].net
    /\ ~Includes(pre[p].users[A].friends, B)
    => CreatedOnePending(p, A, B)

C2_AtMostOnePending ==
  \A a \in UserIds, b \in UserIds :
    users[a].exists /\ users[b].exists => Cardinality(PendingQuery(a, b)) <= 1

AcceptedAndFriends(p, r, A, B) ==
  /\ friendRequests[r].status = "accepted"
  /\ Includes(users[A].friends, B) /\ Includes(users[B].friends, A)
  /\ friendRequests = [pre[p].friendRequests EXCEPT ![r].status = "accepted"]

C3_Post(p) ==
  \A A \in UserIds, B \in UserIds :
    /\ ValidPair(p, A, B) /\ ~result[p].net
    /\ PendingFromTo(pre[p].friendRequests, B, A) # {}
    /\ PendingFromTo(pre[p].friendRequests, A, B) = {}
    => \E r \in PendingFromTo(pre[p].friendRequests, B, A) : AcceptedAndFriends(p, r, A, B)

\* C3: a sendFriendRequest(A, B's email) that finds a pending request from B to
\* A has, when it returns, accepted that request (status 'accepted', A and B
\* in each other's friends) and created no request document.
C3_ReverseRequestAccepted ==
  [][\A p \in SeqProcs : Completes(p) /\ proc[p].op \in SendOps => C3_Post(p)']_vars

RespondOps == {"respondToFriendRequest_v1", "respondToFriendRequest_v2"}

\* The user documents that existed when p's call started are as they were.
UsersUntouched(p) == \A u \in UserIds : users[u] = pre[p].users[u]

ResolvedBefore(p) ==
  /\ proc[p].rid \in DOMAIN pre[p].friendRequests
  /\ pre[p].friendRequests[proc[p].rid].status # "pending"

C4_Post(p) ==
  ResolvedBefore(p)
    => Failed(p) /\ friendRequests = pre[p].friendRequests /\ UsersUntouched(p)

\* C4: a respondToFriendRequest on a request that an earlier call resolved
\* fails and changes neither the request document nor any user document.
C4_SecondResponseRejected ==
  [][\A p \in SeqProcs : Completes(p) /\ proc[p].op \in RespondOps => C4_Post(p)']_vars


\* p's call was respondToFriendRequest(rid, 'accepted') on a request that was
\* pending when the call started, and it reported success.
AcceptedPending(p) ==
  /\ proc[p].op \in RespondOps /\ proc[p].resp = "accepted"
  /\ proc[p].rid \in DOMAIN pre[p].friendRequests
  /\ pre[p].friendRequests[proc[p].rid].status = "pending"
  /\ result[p].success = "true"

HasProfile(u, f) == users[u].friendProfiles[f].st = "set"

C5_Post(p) ==
  AcceptedPending(p) =>
    LET A == friendRequests[proc[p].rid].fromUserId
        B == friendRequests[proc[p].rid].toUserId
    IN /\ Count(users[A].friends, B) = 1 /\ Count(users[B].friends, A) = 1
       /\ HasProfile(A, B) /\ HasProfile(B, A)

\* C5: when respondToFriendRequest(requestId, 'accepted') on a pending request
\* from A to B reports success, A's friends holds B exactly once, B's friends
\* holds A exactly once, and each has a friendProfiles entry for the other.
C5_AcceptedMutualFriends ==
  [][\A p \in SeqProcs : Completes(p) /\ proc[p].op \in RespondOps => C5_Post(p)']_vars

\* An accepted response has returned for two users who were in each other's
\* friends lists before the call.
C5_Witness ==
  \E p \in SeqProcs :
    /\ Done(p, RespondOps) /\ AcceptedPending(p)
    /\ LET A == friendRequests[proc[p].rid].fromUserId
           B == friendRequests[proc[p].rid].toUserId
       IN /\ Includes(pre[p].users[A].friends, B)
          /\ Includes(pre[p].users[B].friends, A)
          /\ Count(users[A].friends, B) = 1 /\ Count(users[B].friends, A) = 1

\* ------------------------------------------------ getFriendsList, lines 892-936

ListEntry(u) == [id |-> u, name |-> UserName(u), email |-> UserEmail(u)]

C6_Post(p) ==
  AcceptedPending(p) =>
    LET u1 == friendRequests[proc[p].rid].fromUserId
        u2 == friendRequests[proc[p].rid].toUserId
    IN /\ ListEntry(u2) \in getFriendsList_v2(u1)
       /\ ListEntry(u1) \in getFriendsList_v2(u2)

\* C6: once u2 has accepted u1's request, getFriendsList(u1) holds an entry
\* with id u2 and u2's name and email, and getFriendsList(u2) one with id u1
\* and u1's name and email.
C6_FriendsListShowsOtherParty ==
  [][\A p \in SeqProcs : Completes(p) /\ proc[p].op \in RespondOps => C6_Post(p)']_vars

MutualFriends(us, a, b) == Includes(us[a].friends, b) /\ Includes(us[b].friends, a)

\* C7: acceptance is atomic: the step that sets a request's status to
\* 'accepted' also leaves sender and recipient in each other's friends lists,
\* and no step of respondToFriendRequest adds one of them to the other's list
\* without the converse.
C7_AcceptanceAtomic ==
  [][/\ \A r \in DOMAIN friendRequests :
          /\ friendRequests[r].status # "accepted"
          /\ friendRequests'[r].status = "accepted"
          /\ users[friendRequests[r].fromUserId].exists
          /\ users[friendRequests[r].toUserId].exists
          => MutualFriends(users', friendRequests[r].fromUserId,
                             friendRequests[r].toUserId)
     /\ \A p \in SeqProcs : \A a \in UserIds, b \in UserIds :
          /\ proc[p].pc \in R1Pcs \cup R2Pcs
          /\ ~Includes(users[a].friends, b) /\ Includes(users'[a].friends, b)
          => Includes(users'[b].friends, a)]_vars


NeverFriends(p) ==
  /\ pre[p].users[proc[p].a].exists /\ pre[p].users[proc[p].b].exists
  /\ ~Includes(pre[p].users[proc[p].a].friends, proc[p].b)
  /\ ~Includes(pre[p].users[proc[p].b].friends, proc[p].a)

C8_Post(p) ==
  /\ repeat[p] /\ ~result[p].net => result[p].success = "true" /\ UsersUntouched(p)
  /\ NeverFriends(p) /\ ~result[p].net =>
       /\ result[p].success = "true"
       /\ \A u \in UserIds : users[u].friends = pre[p].users[u].friends

\* C8: removeFriend is idempotent: a removeFriend(A, B) that repeats a
\* successful removeFriend(A, B) succeeds and leaves every user document as the
\* first call left it; on two users who are not friends it succeeds and removes
\* nobody from any friends list (a rejected remote call aside).
C8_RemoveFriendIdempotent ==
  [][\A p \in SeqProcs : Completes(p) /\ proc[p].op = "removeFriend" => C8_Post(p)']_vars

\* A repeated removeFriend has returned after a first one that removed a friend.
C8_Witness ==
  \E p \in SeqProcs :
    /\ Done(p, {"removeFriend"}) /\ repeat[p] /\ result[p].success = "true"
    /\ users[proc[p].a].friendProfiles[proc[p].b].st = "null"
    /\ \E c \in UserIds : Includes(users[proc[p].a].friends, c)

Removed(us, a, b) ==
  /\ ~Includes(us[a].friends, b) /\ ~Includes(us[b].friends, a)
  /\ us[a].friendProfiles[b].st = "null" /\ us[b].friendProfiles[a].st = "null"

\* What the documents of a and b hold about a third user c, and c's document.
ThirdUnchanged(us, vs, a, b, c) ==
  /\ us[c] = vs[c]
  /\ \A u \in {a, b} : /\ Count(us[u].friends, c) = Count(vs[u].friends, c)
                       /\ us[u].friendProfiles[c] = vs[u].friendProfiles[c]

\* C9: the batch of removeFriend(A, B) is all or nothing: the committing step
\* either leaves every user document as it was, or leaves B out of A's friends,
\* A out of B's friends and both friendProfiles entries null; what the two
\* documents hold about any third user, and that user's document, stay.
C9_RemoveFriendAtomicFrame ==
  [][\A p \in SeqProcs :
       proc[p].pc = "rm_commit" /\ proc'[p].pc = "done" =>
         LET a == proc[p].a
             b == proc[p].b
         IN /\ users' = users \/ Removed(users', a, b)
            /\ \A c \in UserIds \ {a, b} : ThirdUnchanged(users', users, a, b, c)]_vars

\* removeFriend(A, B) has removed B from A while A keeps a friend C.
C9_Witness ==
  \E p \in SeqProcs : \E c \in UserIds \ {proc[p].a, proc[p].b} :
    /\ Done(p, {"removeFriend"}) /\ result[p].success = "true"
    /\ Includes(pre[p].users[proc[p].a].friends, proc[p].b)
    /\ Includes(pre[p].users[proc[p].a].friends, c)
    /\ Removed(users, proc[p].a, proc[p].b)
    /\ Includes(users[proc[p].a].friends, c)

\* -------------------------------------------------------------- picnic claims

FnCompleted(p, ops) == fn[p].pc = "done" /\ fn[p].op \in ops

NotInvitedError == "User was not invited to this picnic"

\* The call of p found the picnic, and its user outside the invitedUsers list.
NotInvitedBefore(p) ==
  /\ fn[p].uid \in UserIds
  /\ fnPre[p].picnics[fn[p].picnicId].exists
  /\ ~Includes(fnPre[p].picnics[fn[p].picnicId].invitedUsers, fn[p].uid)

\* The notification the Cloud Function was called with was there and addressed
\* to the caller, so that neither not-found nor permission-denied applies.
OwnNotificationBefore(p) ==
  fn[p].op = "respondToPicnicInvite_fn" =>
    /\ fn[p].nid \in DOMAIN fnPre[p].notifications
    /\ fnPre[p].notifications[fn[p].nid].recipientId = fn[p].uid

RejectedUntouched(p) ==
  /\ fnResult[p].success \in {"false", "throw"}
  /\ fnResult[p].error = NotInvitedError
  /\ picnics = fnPre[p].picnics
  /\ notifications = fnPre[p].notifications

\* C10: respondToPicnicInvite, in either implementation and for accept true or
\* false, called for a user who is not in the invitedUsers list of the picnic,
\* fails with the not-invited error and leaves the picnic document and every
\* notification document as they were.
C10_NotInvitedRejected ==
  \A p \in SeqProcs :
    /\ FnCompleted(p, RespondInviteOps)
    /\ NotInvitedBefore(p) /\ OwnNotificationBefore(p)
    /\ ~fnResult[p].net
    => RejectedUntouched(p)

\* The call of p found the picnic with its user in the invitedUsers list.
InvitedBefore(p) ==
  /\ fn[p].uid \in UserIds
  /\ fnPre[p].picnics[fn[p].picnicId].exists
  /\ Includes(fnPre[p].picnics[fn[p].picnicId].invitedUsers, fn[p].uid)

IsParticipant(c, u) == \E i \in DOMAIN picnics[c].participants : picnics[c].participants[i].id = u

C11_Post(p) ==
  LET c == fn[p].picnicId
      U == fn[p].uid
  IN /\ ~Includes(picnics[c].invitedUsers, U)
     /\ fn[p].accept => IsParticipant(c, U)
     /\ ~fn[p].accept => picnics[c].participants = fnPre[p].picnics[c].participants

\* C11: when respondToPicnicInvite, in either implementation, has returned for a
\* user U who was in the invitedUsers list of the picnic, U is no longer in
\* invitedUsers; after accept=true U is among the participants, after
\* accept=false participants is what it was before the call.
C11_ResponseConsumesInvite ==
  \A p \in SeqProcs :
    /\ FnCompleted(p, RespondInviteOps)
    /\ InvitedBefore(p) /\ OwnNotificationBefore(p)
    /\ ~fnResult[p].net
    => C11_Post(p)

\* p is inside respondToPicnicInvite(c, u, accept=true), in either implementation.
Accepting(p, c, u) ==
  /\ fn[p].op \in RespondInviteOps /\ fn[p].pc # "done"
  /\ fn[p].picnicId = c /\ fn[p].uid = u /\ fn[p].accept

\* C12: once user U has declined an invite to picnic P and no
\* inviteFriendsToPicnic has re-invited U since, no step of a later
\* respondToPicnicInvite(P, U, accept=true) changes P's participants.
C12_DeclinedInviteConsumed ==
  [][\A p \in SeqProcs : \A c \in PicnicIds, u \in UserIds :
       <<c, u>> \in declined /\ Accepting(p, c, u)
         => picnics'[c].participants = picnics[c].participants]_vars

\* C13: under any interleaving of respondToFriendRequest calls, a request whose
\* status has left 'pending' keeps that status in every later step; so the
\* status only ever moves from 'pending' to 'accepted' or to 'rejected'.
C13_StatusFinal ==
  [][\A r \in DOMAIN friendRequests :
       friendRequests[r].status # "pending"
         => friendRequests'[r].status = friendRequests[r].status]_vars

\* The users of a users collection whose email is the trimmed, lower-cased e.
MatchesBefore(p) ==
  {u \in UserIds : /\ pre[p].users[u].exists
                   /\ pre[p].users[u].email = NormalizeEmail(proc[p].email)}

\* The call of p cannot be served: the sender has no user document, nobody has
\* the given email, or the email is the sender's own.
InvalidSend(p) ==
  \/ ~pre[p].users[proc[p].a].exists
  \/ MatchesBefore(p) = {}
  \/ MatchesBefore(p) = {proc[p].a}

C14_Post(p) ==
  InvalidSend(p) /\ ~result[p].net
    => /\ Failed(p)
       /\ friendRequests = pre[p].friendRequests
       /\ UsersUntouched(p)

\* C14: a sendFriendRequest whose sender has no user document, whose email
\* matches no user, or whose email resolves to the sender, ends in failure,
\* creates no friendRequests document and changes no user document.
C14_InvalidSendRejected ==
  [][\A p \in SeqProcs : Completes(p) /\ proc[p].op \in SendOps => C14_Post(p)']_vars

\* The call of p was sendFriendRequest(A, B's email) with B in A's friends list.
AlreadyFriendsBefore(p) ==
  \E B \in MatchesBefore(p) :
    /\ B # proc[p].a
    /\ pre[p].users[proc[p].a].exists
    /\ Includes(pre[p].users[proc[p].a].friends, B)

C15_Post(p) ==
  AlreadyFriendsBefore(p) /\ ~result[p].net
    => Failed(p) /\ friendRequests = pre[p].friendRequests

\* No pending request links two users who are in each other's friends lists.
NoPendingBetweenFriends ==
  \A r \in DOMAIN friendRequests :
    LET A == friendRequests[r].fromUserId
        B == friendRequests[r].toUserId
    IN friendRequests[r].status = "pending"
         => ~(Includes(users[A].friends, B) /\ Includes(users[B].friends, A))

\* C15: a sendFriendRequest(A, B's email) that finds B in A's friends list
\* fails and creates no request document, and in no state is there a pending
\* request between two users who are in each other's friends lists.
C15_NoRequestBetweenFriends ==
  [][/\ \A p \in SeqProcs : Completes(p) /\ proc[p].op \in SendOps => C15_Post(p)'
     /\ NoPendingBetweenFriends']_vars

\* p's call was respondToFriendRequest(rid, 'rejected') on a request that was
\* pending when the call started.
RejectedPending(p) ==
  /\ proc[p].op \in RespondOps /\ proc[p].resp = "rejected"
  /\ proc[p].rid \in DOMAIN pre[p].friendRequests
  /\ pre[p].friendRequests[proc[p].rid].status = "pending"

C16_Post(p) ==
  RejectedPending(p) =>
    LET rejected == [pre[p].friendRequests EXCEPT ![proc[p].rid].status = "rejected"]
    IN /\ UsersUntouched(p)
       /\ friendRequests \in {pre[p].friendRequests, rejected}
       /\ ~result[p].net => result[p].success = "true" /\ friendRequests = rejected

\* C16: when respondToFriendRequest(requestId, 'rejected') on a pending request
\* returns, only that request's status has changed (to 'rejected'): every user
\* document, and so the friends lists and friendProfiles maps of both users, is
\* as it was before the call.
C16_RejectTouchesOnlyStatus ==
  [][\A p \in SeqProcs : Completes(p) /\ proc[p].op \in RespondOps => C16_Post(p)']_vars

\* A request between two users who are friends has been rejected.
C16_Witness ==
  \E p \in SeqProcs :
    /\ Done(p, RespondOps) /\ RejectedPending(p) /\ result[p].success = "true"
    /\ friendRequests[proc[p].rid].status = "rejected"
    /\ Includes(users[friendRequests[proc[p].rid].fromUserId].friends,
                friendRequests[proc[p].rid].toUserId)

ListOps == {"getFriendsList_v1", "getFriendsList_v2"}

\* The call of p found its user with friends but with no friendProfiles entry.
FallbackCase(p) ==
  /\ pre[p].users[proc[p].a].exists
  /\ pre[p].users[proc[p].a].friends # <<>>
  /\ ~HasProfiles(pre[p].users[proc[p].a])

\* The friends of p's user whose individual lookup was not rejected and whose
\* document exists, as list entries.
FoundFriends(p) ==
  {[id |-> f, name |-> OrDefault(pre[p].users[f].name, "Unknown User"),
    email |-> pre[p].users[f].email] :
   f \in {g \in Range(pre[p].users[proc[p].a].friends) :
            g \notin proc[p].lost /\ pre[p].users[g].exists}}

C17_Post(p) ==
  FallbackCase(p) /\ ~result[p].net => proc[p].list = FoundFriends(p)

\* C17: getFriendsList(U), in either implementation, for a user with friends
\* and an absent or empty friendProfiles map returns exactly the friends whose
\* individual lookup was not rejected and found a document; a rejected lookup
\* only leaves that friend out.
C17_FallbackPerFriend ==
  [][\A p \in SeqProcs : Completes(p) /\ proc[p].op \in ListOps => C17_Post(p)']_vars

\* The step on which p's picnic call returns or throws.
FnCompletes(p) == fn[p].pc # "done" /\ fn'[p].pc = "done"

PicnicStoreUntouched(p) ==
  picnics = fnPre[p].picnics /\ notifications = fnPre[p].notifications

\* The Cloud Function was called by an authenticated user with an existing
\* picnic and a notification addressed to somebody else.
ForeignNotificationBefore(p) ==
  /\ fn[p].op = "respondToPicnicInvite_fn" /\ fn[p].uid \in UserIds
  /\ fnPre[p].picnics[fn[p].picnicId].exists
  /\ fn[p].nid \in DOMAIN fnPre[p].notifications
  /\ fnPre[p].notifications[fn[p].nid].recipientId # fn[p].uid

C18_Post(p) ==
  /\ ForeignNotificationBefore(p)
       => /\ fnResult[p].success = "throw" /\ PicnicStoreUntouched(p)
          /\ ~fnResult[p].net => fnResult[p].error = "permission-denied"
  /\ fn[p].op = "respondToPicnicInvite_fn" /\ fn[p].uid = NoUser
       => /\ fnResult[p].success = "throw" /\ fnResult[p].error = "unauthenticated"
          /\ PicnicStoreUntouched(p)

IsReadChanges(n) == notifications'[n].isRead # notifications[n].isRead

\* C19: every step that changes the isRead flag of a notification is a step of
\* a call made by that notification's recipient, and it turns the flag from
\* false to true.
C19_OnlyRecipientMarksRead ==
  [][\A n \in DOMAIN notifications :
       IsReadChanges(n) =>
         /\ ~notifications[n].isRead /\ notifications'[n].isRead
         /\ \E p \in SeqProcs :
              /\ fn[p].pc # "done" /\ fn'[p] # fn[p]
              /\ fn[p].uid = notifications[n].recipientId]_vars

\* The flag never goes back from true to false.
C19_NeverReset ==
  [][\A n \in DOMAIN notifications :
       notifications[n].isRead => notifications'[n].isRead]_vars

\* The Cloud Function marks a notification read only for its recipient.
C19_FunctionOnlyRecipient ==
  [][\A n \in DOMAIN notifications, p \in SeqProcs :
       IsReadChanges(n) /\ fn[p].op = "respondToPicnicInvite_fn"
         => fn[p].uid = notifications[n].recipientId]_vars

\* The step is one settled sendPicnicInvite of p's inviteFriendsToPicnic call.
SendsInvite(p) == fn[p].pc = "in_notify" /\ fn'[p] # fn[p]

\* notifications' is notifications with one more document, the one described.
OneNewNotification(type, senderId, recipientId, picnicId, message) ==
  /\ Len(notifications') = Len(notifications) + 1
  /\ \A n \in DOMAIN notifications : notifications'[n] = notifications[n]
  /\ LET new == notifications'[Len(notifications')]
     IN  /\ new.type = type /\ new.senderId = senderId
         /\ new.recipientId = recipientId /\ new.picnicId = picnicId
         /\ new.message = message /\ ~new.isRead

\* C20: a sendPicnicInvite (sendNotification) that succeeds adds exactly one
\* notification document with the given sender, recipient, type picnic_invite,
\* picnic and message and isRead false, and changes no existing notification,
\* no picnic and no user document; one that is rejected changes nothing.
C20_SendNotificationOneWrite ==
  [][\A p \in SeqProcs :
       SendsInvite(p) =>
         /\ picnics' = picnics /\ users' = users
         /\ \/ notifications' = notifications
            \/ \E f \in fn[p].todo :
                 OneNewNotification("picnic_invite", fn[p].uid, f,
                                    fn[p].picnicId, InviteMessage)]_vars

\* An invite has been sent while a read notification already existed: the old
\* one is still read and the new one is unread.
C20_Witness ==
  \E p \in SeqProcs :
    /\ FnCompleted(p, {"inviteFriendsToPicnic"})
    /\ Len(fnPre[p].notifications) >= 1
    /\ fnPre[p].notifications[1].isRead
    /\ Len(notifications) = Len(fnPre[p].notifications) + Len(fn[p].friendIds)
    /\ notifications[1] = fnPre[p].notifications[1]
    /\ ~notifications[Len(notifications)].isRead

\* p's sendFriendRequest call has ended and the request document it created is
\* in the store.
CreatedRequest(p) ==
  /\ Done(p, SendOps)
  /\ Len(friendRequests) = Len(pre[p].friendRequests) + 1

\* C21: a sendFriendRequest call whose request document was created reports
\* success, whatever happens to the two bookkeeping writes on sentRequests and
\* receivedRequests that follow the creation.
C21_BookkeepingFailureLogged ==
  \A p \in SeqProcs : CreatedRequest(p) => result[p].success = "true"

\* The same for the implementation of lines 680-762, which has no bookkeeping
\* writes.
C21_V2 ==
  \A p \in SeqProcs :
    CreatedRequest(p) /\ proc[p].op = "sendFriendRequest_v2" => result[p].success = "true"

\* What the caller of getFriendsList sees when a remote call was rejected is
\* not what it sees after a successful call that found no friends.
FailureVisible(p) == ~(result[p].success = "true" /\ proc[p].list = {})

\* C22: a getFriendsList call in which a remote call was rejected ends with an
\* error (a throw or success=false), never with the value of a successful
\* empty result.
C22_FailuresSurface ==
  \A p \in SeqProcs : Done(p, ListOps) /\ result[p].net => FailureVisible(p)

\* Every delivered snapshot's handler has run to its end, none was rejected.
HandlersFinished ==
  /\ friendsTab.handlers # <<>>
  /\ \A k \in DOMAIN friendsTab.handlers :
       ~friendsTab.handlers[k].running /\ friendsTab.handlers[k].i # 0

\* The list in memory is the one built from the snapshot delivered last.
LatestSnapshotShown ==
  friendsTab.rawRequests = friendsTab.handlers[Len(friendsTab.handlers)].requests

\* C23: once the handlers of all delivered snapshots have finished, in whatever
\* order, rawRequests is the list built from the last snapshot delivered; and
\* no handler calls setRawRequests after the subscription was torn down.
C23_LatestSnapshotWins ==
  /\ HandlersFinished => LatestSnapshotShown
  /\ friendsTab.lateWrites = 0

\* The first half alone, and the second half alone.
C23_FinalList == HandlersFinished => LatestSnapshotShown
C23_NoLateWrite == friendsTab.lateWrites = 0

\* C24: in NotificationProvider unreadCount is the length of the notifications
\* list in every state, however snapshot deliveries and markAsRead
\* completions interleave.
C24_UnreadCountMatchesList ==
  notificationCtx.unreadCount = Len(notificationCtx.notifications)

\* No call is in flight.
AllQuiet == \A p \in Procs : proc[p].pc \in {"idle", "done"}

AcceptedBetween(a, b) ==
  \E r \in DOMAIN friendRequests :
    /\ {friendRequests[r].fromUserId, friendRequests[r].toUserId} = {a, b}
    /\ friendRequests[r].status = "accepted"

\* C25: with no call in flight, two users who are in each other's friends
\* lists (friendships come only from responses here: no mock data, no
\* removeFriend) have a request between them whose status is 'accepted'.
C25_FriendshipHasAcceptedRequest ==
  AllQuiet =>
    \A a \in RaceUsers, b \in RaceUsers :
      a # b /\ MutualFriends(users, a, b) => AcceptedBetween(a, b)

\* The step is the invitedUsers write of p's respondToPicnicInvite call.
RemovesInvite(p) == fn[p].pc = "rc_removeInvite" /\ picnics' # picnics

\* C26: the write with which respondToPicnicInvite(P, U) consumes the invite
\* changes the membership of nobody but U in P's invitedUsers, whatever other
\* invite and response calls have written since the call read the picnic.
C26_RemovesOnlyResponder ==
  [][\A p \in Procs : RemovesInvite(p) =>
       \A w \in UserIds \ {fn[p].uid} :
         Includes(picnics'[fn[p].picnicId].invitedUsers, w)
           <=> Includes(picnics[fn[p].picnicId].invitedUsers, w)]_vars

\* The number of participants entries that carry user id u.
EntriesOf(c, u) ==
  Cardinality({i \in DOMAIN picnics[c].participants : picnics[c].participants[i].id = u})

\* C27: every user whose join flow has completed is among the participants of
\* the picnic, and no user id has more than one participants entry.
C27_JoinKeepsEveryParticipant ==
  /\ \A p \in Procs :
       FnCompleted(p, {"join_handlePhotoTaken"}) /\ fnResult[p].success = "true"
         => IsParticipant(fn[p].picnicId, fn[p].uid)
  /\ \A c \in PicnicIds, u \in UserIds : EntriesOf(c, u) <= 1

\* The first half alone.
C27_NoLostJoin ==
  \A p \in Procs :
    FnCompleted(p, {"join_handlePhotoTaken"}) /\ fnResult[p].success = "true"
      => IsParticipant(fn[p].picnicId, fn[p].uid)

\* C28: in the auth provider a non-null userData is the document of the
\* current currentUser (so it is null when currentUser is null), whatever the
\* order in which the getUser reads of the auth-state callbacks complete; and
\* ProfileCompleteRoute renders its children only on the current user's data.
C28_UserDataBelongsToCurrentUser ==
  /\ authCtx.userData # NoUser => authCtx.userData = authCtx.currentUser
  /\ RendersChildren => authCtx.userData = authCtx.currentUser

\* The route part alone.
C28_RouteUsesOwnData == RendersChildren => authCtx.userData = authCtx.currentUser

\* The user's subcollection holds at most one document per place id.
AtMostOneSaved ==
  \A placeId \in PlaceIds : Cardinality(SavedQuery(restaurantsTab.docs, placeId)) <= 1

\* The deleteDoc of a toggle that found the place saved leaves it unsaved.
DeleteUnsaves ==
  \A k \in DOMAIN restaurantsTab.calls :
    restaurantsTab.calls[k].pc = "deleteDoc" /\ restaurantsTab'.calls[k].pc = "done"
    /\ restaurantsTab'.docs # restaurantsTab.docs
      => SavedQuery(restaurantsTab'.docs, restaurantsTab.calls[k].placeId) = {}

\* C29: savedRestaurants holds at most one document per place id after every
\* step, and a toggleSaveRestaurant call that finds the place saved leaves it
\* unsaved, also when toggles of the same place interleave between the query
\* and the add or delete.
C29_OneSavedDocumentPerPlace == [][AtMostOneSaved' /\ DeleteUnsaves]_vars

\* C30: every getFcmToken call that was started returns, with a token or with
\* null, whatever the push SDK and the permission prompt answer.
C30_GetFcmTokenTerminates ==
  (messaging.pc \notin {"idle", "done"}) ~> (messaging.pc = "done")

====
